---- MODULE Spec2Model ----
(***************************************************************************)
(* A model of the validator combinators of src/lib/validate.ts and         *)
(* src/lib/adapt.ts: validator trees, their constructors (union, optional, *)
(* intersection, ...) and the validate / validateExact entry points.       *)
(*                                                                         *)
(* JavaScript values are records tagged by t; validator nodes are records  *)
(* tagged by k (the class of the node).  A Result is Ok(value) or          *)
(* Err(message); messages are sequences of string tokens.                  *)
(***************************************************************************)
EXTENDS Integers, Sequences, FiniteSets, TLC

VARIABLES
    op,     \* the constructor the program called ("none" before it did)
    args,   \* the validators it handed to that constructor
    node,   \* the validator the constructor returned
    pc,     \* "start", then "built", and "called" while a Result is held
    input,  \* the input of the latest validate / validateExact call
    mode,   \* isExact of that call: FALSE for validate, TRUE for validateExact
    res,    \* the Result it returned
    memo    \* the Recursive nodes of the tree: whether their name is set yet,
            \* and how often their suppliers have run since construction

vars == <<op, args, node, pc, input, mode, res, memo>>

(***************************************************************************)
(* Bounds of the model.                                                    *)
(***************************************************************************)
\* largest number of siblings / members handed to one constructor call
MaxSibs == 2
\* largest number of elements of an input array
MaxLen == 2

(***************************************************************************)
(* JavaScript values.                                                      *)
(***************************************************************************)
NoFields == [key \in {} |-> 0]

Undef == [t |-> "undefined"]
Null == [t |-> "null"]
Str(s) == [t |-> "string", p |-> s]
\* numbers and booleans carry their printed form
Num(n) == [t |-> "number", p |-> n]
Bool(b) == [t |-> "boolean", p |-> b]
\* a function value, such as the members every object inherits
Fn(name) == [t |-> "function", p |-> name]
\* Symbol()
Sym == [t |-> "symbol"]
\* a plain object: f maps its own enumerable keys to their values
Obj(f) == [t |-> "object", f |-> f]
\* Object.create(null) with the own keys of f: an object without a prototype
Bare(f) == [t |-> "bare", f |-> f]
\* an array: items, plus own non-index keys ("side fields") in f
Arr(items, f) == [t |-> "array", items |-> items, f |-> f]
\* an instance of the class clz built from constructor arguments
Instance(clz, items) == [t |-> "instance", clz |-> clz, items |-> items]
\* the Maybe container of @blainehansen/monads
Some(v) == [t |-> "Some", v |-> v]
None == [t |-> "None"]

\* property names every object inherits from Object.prototype
ObjectPrototypeKeys == {"toString"}

\* the index keys "0", "1", ... of an array of length n, in order
IndexKey(i) == ToString(i)
IndexKeys(n) == {IndexKey(i) : i \in 0..(n - 1)}

\* Array.isArray(input)
IsArray(x) == x.t = "array"

\* typeof input === 'object' && input !== null
isObject(x) == x.t \in {"object", "bare", "array", "instance", "Some", "None"}

\* the own enumerable keys of a value, as `for (const key in input)` visits
\* them: index keys first, then the other keys
OwnKeys(x) ==
    CASE x.t \in {"object", "bare"} -> DOMAIN x.f
      [] x.t = "array" -> IndexKeys(Len(x.items)) \cup DOMAIN x.f
      [] OTHER -> {}

\* input[key]: an own property, else an inherited one, else undefined
Get(x, key) ==
    CASE x.t = "array" /\ key \in IndexKeys(Len(x.items)) ->
            x.items[(CHOOSE i \in 0..(Len(x.items) - 1) : IndexKey(i) = key) + 1]
      [] x.t \in {"object", "bare", "array"} /\ key \in DOMAIN x.f -> x.f[key]
      [] isObject(x) /\ x.t # "bare" /\ key \in ObjectPrototypeKeys -> Fn(key)
      [] OTHER -> Undef

\* whether `${x}` in a template string yields a string; it throws a TypeError
\* for a symbol, for an object whose toString is not a function (an object
\* without a prototype, an own key toString that holds something else) and
\* for an array that holds such a value (null and undefined items are
\* skipped by join)
RECURSIVE Stringifies(_)
Stringifies(x) ==
    CASE x.t = "symbol" -> FALSE
      [] x.t \in {"object", "bare"} -> Get(x, "toString").t = "function"
      [] x.t = "array" ->
            /\ Get(x, "toString").t = "function"
            /\ \A i \in 1..Len(x.items) :
                  x.items[i].t \in {"null", "undefined"} \/ Stringifies(x.items[i])
      [] OTHER -> TRUE

(***************************************************************************)
(* Results (the Result container of @blainehansen/monads).                 *)
(* A result also carries what happened while it was computed: seen, the    *)
(* isExact flag every ObjectValidator._validate call received; calls, the   *)
(* user callbacks that ran (suppliers, constructors, conversion and        *)
(* wrapped functions), in order, each with the value it was given; raised, *)
(* the exceptions thrown; and depth, the longest chain of Recursive nodes  *)
(* resolved inside one another.                                            *)
(***************************************************************************)
Ok(v) ==
    [ok |-> TRUE, val |-> v, err |-> <<>>,
     seen |-> {}, calls |-> <<>>, raised |-> {}, depth |-> 0]
Err(e) ==
    [ok |-> FALSE, val |-> Undef, err |-> e,
     seen |-> {}, calls |-> <<>>, raised |-> {}, depth |-> 0]
\* an exception left the call: no Result is returned
Raise(exception) ==
    [ok |-> FALSE, val |-> Undef, err |-> <<exception>>,
     seen |-> {}, calls |-> <<>>, raised |-> {exception}, depth |-> 0]
\* Err(`... got ${x}`): the failure whose message holds the offending value
validatorErr(e, x) == IF Stringifies(x) THEN Err(e) ELSE Raise("TypeError")
Max(a, b) == IF a >= b THEN a ELSE b
NoEffects == [seen |-> {}, calls |-> <<>>, raised |-> {}, depth |-> 0]
Effects(r) ==
    [seen |-> r.seen, calls |-> r.calls, raised |-> r.raised, depth |-> r.depth]
\* ObjectValidator._validate was entered with isExact
Received(isExact) == [NoEffects EXCEPT !.seen = {isExact}]
\* the callback `callee` (a "supplier", "constructor", "conversion" or
\* "function") ran on the value `with`
Invoked(kind, callee, with) ==
    [NoEffects EXCEPT !.calls = <<[kind |-> kind, callee |-> callee, with |-> with]>>]
\* the callbacks of one kind among those a result reports
CallsOf(kind, r) == SelectSeq(r.calls, LAMBDA call : call.kind = kind)
\* the effects e, then those of r
Then(e, r) ==
    [seen |-> e.seen \cup r.seen, calls |-> e.calls \o r.calls,
     raised |-> e.raised \cup r.raised, depth |-> Max(e.depth, r.depth)]
\* the result r, computed after the effects e
Saw(r, e) ==
    [r EXCEPT !.seen = e.seen \cup @, !.calls = e.calls \o @,
              !.raised = e.raised \cup @, !.depth = Max(e.depth, @)]
\* what the caller gets: the Result, or the exception that left the call
Outcome(r) ==
    IF r.raised = {} THEN r
    ELSE [r EXCEPT !.ok = FALSE, !.val = Undef, !.err = <<"uncaught">>]
\* the result r of a validation one Recursive node further down
Deeper(r) == [r EXCEPT !.depth = @ + 1]

(***************************************************************************)
(* Validator nodes.                                                        *)
(***************************************************************************)
\* `undefined` where a validator is expected (a tuple without a spread)
NoValidator == [k |-> "none"]

\* new WrapValidator(name, validatorFunc): the exported primitives
Wrap(name) == [k |-> "wrap", name |-> name]
string == Wrap("string")
number == Wrap("number")
boolean == Wrap("boolean")
unknown == Wrap("unknown")
never == Wrap("never")

\* new ValuesValidator(values); id tells the exported singletons apart from
\* one another and from caller-built nodes (JavaScript compares them with !==)
Values(values, id) == [k |-> "values", values |-> values, id |-> id]
literal(value) == Values(<<value>>, "")
undefinedLiteral == Values(<<Undef>>, "undefinedLiteral")
nullLiteral == Values(<<Null>>, "nullLiteral")

\* one declared field of an object validator
Field(key, v) == [key |-> key, validator |-> v]
FieldKeys(fields) == {fields[i].key : i \in 1..Len(fields)}
FieldAt(fields, key) == fields[CHOOSE i \in 1..Len(fields) : fields[i].key = key].validator

\* TupleValidator constructor: the while loop over the 0-based `index`, which
\* is decremented before the Optional test, followed by minLength = index + 1
RECURSIVE MinLengthFrom(_, _)
MinLengthFrom(validators, index) ==
    IF index < 0 THEN index + 1
    ELSE IF validators[index + 1].k # "optional" THEN (index - 1) + 1
    ELSE MinLengthFrom(validators, index - 1)

TupleValidator(validators, spread) ==
    [k |-> "tuple", validators |-> validators, spread |-> spread,
     minLength |-> MinLengthFrom(validators, Len(validators) - 1)]
tuple(validators) == TupleValidator(validators, NoValidator)
spread(validators, rest) == TupleValidator(validators, rest)

\* new ObjectValidator([validators]); fields keep their declaration order
object(fields) == [k |-> "object", validators |-> fields]
array(v) == [k |-> "array", validator |-> v]
dictionary(v) == [k |-> "dictionary", validator |-> v]
record(keys, v) == [k |-> "record", keys |-> keys, validator |-> v]
maybe(v) == [k |-> "maybe", validator |-> v]
recursive(fn) == [k |-> "recursive", fn |-> fn]
cls(clz, v) == [k |-> "cls", clz |-> clz, constructorArgsValidator |-> v]
IntersectionValidator(validators) == [k |-> "intersection", validators |-> validators]

\* UnionValidator constructor: members that are unions are spliced in
RECURSIVE Flatten(_)
Flatten(validators) ==
    IF validators = <<>> THEN <<>>
    ELSE LET validator == Head(validators) IN
         (IF validator.k = "union" THEN validator.validators ELSE <<validator>>)
            \o Flatten(Tail(validators))

\* variant of the constructor that stores the members as given
UnionValidatorKeepsNested(validators) == [k |-> "union", validators |-> validators]

UnionValidator(validators) == [k |-> "union", validators |-> Flatten(validators)]
union(validators) == UnionValidator(validators)
undefinable(v) == UnionValidator(<<v, undefinedLiteral>>)
nullable(v) == UnionValidator(<<v, nullLiteral>>)
nillable(v) == UnionValidator(<<v, nullLiteral, undefinedLiteral>>)

\* OptionalValidator constructor: an inner union loses its undefinedLiteral
\* validator !== undefinedLiteral (a comparison of references)
NotUndefinedLiteral(v) == ~(v.k = "values" /\ v.id = "undefinedLiteral")
\* variant that wraps an inner union as it is
OptionalValidatorKeepsUnion(v) == [k |-> "optional", validator |-> v]

OptionalValidator(v) ==
    [k |-> "optional",
     validator |-> IF v.k = "union"
                   THEN UnionValidator(SelectSeq(v.validators, NotUndefinedLiteral))
                   ELSE v]
optional(v) == OptionalValidator(v)

(***************************************************************************)
(* validate / validateExact.                                               *)
(***************************************************************************)
\* the validatorFunc of the exported WrapValidators
WrapFunc(name, x) ==
    CASE name = "unknown" -> Ok(x)
      [] name = "never" -> Err(<<"never">>)
      [] name \in {"string", "number", "boolean"} ->
            IF x.t = name THEN Ok(x) ELSE validatorErr(<<"expected", name>>, x)

\* a class instance is built from the validated constructor arguments
Construct(clz, argsValue) == Instance(clz, argsValue.items)

\* the keys of the model in the order `for (const key in ...)` visits them
\* when they were inserted in this order
KeyOrder == <<"0", "1", "2", "3", "4", "a", "b", "c", "toString">>
KeySeq(keys) == SelectSeq(KeyOrder, LAMBDA key : key \in keys)

\* `key in validators`: an own key of the field map, or an inherited one
KeyIn(key, fields) == key \in FieldKeys(fields) \/ key \in ObjectPrototypeKeys

\* the suppliers handed to recursive(): each returns a validator that holds
\* recursive(fn) again (const Category = object({ ..., array(recursive(() =>
\* Category)) })). Category, List and Nested reach themselves through an
\* array item or an object field; Opt and Alt reach themselves through
\* optional and union alone
Named(name) == [name |-> name, returns |-> NoValidator]
\* () => validator, for a validator that is already built
Returning(v) == [name |-> "returning", returns |-> v]
Supplier(fn) ==
    CASE fn.name = "Category" ->
            object(<<Field("a", string),
                     Field("b", array(recursive(Named("Category"))))>>)
      [] fn.name = "List" ->
            object(<<Field("a", optional(recursive(Named("List"))))>>)
      [] fn.name = "Nested" ->
            union(<<string, array(recursive(Named("Nested")))>>)
      [] fn.name = "Opt" -> optional(recursive(Named("Opt")))
      [] fn.name = "Alt" -> union(<<string, recursive(Named("Alt"))>>)
      [] fn.name = "returning" -> fn.returns

\* the conversion functions handed to adaptor() and tryAdaptor()
AdaptorFunc(func, value) ==
    CASE func = "toBoolean" ->
            IF value.t = "string" /\ value.p = "true" THEN Ok(Bool("true"))
            ELSE IF value.t = "string" /\ value.p = "false" THEN Ok(Bool("false"))
            ELSE Err(<<"not a boolean">>)
      [] func = "truthy" -> Ok(Bool(IF value.p = "0" THEN "false" ELSE "true"))
      [] func = "wrapInArray" -> Ok(Arr(<<value>>, NoFields))
      [] func = "fieldA" -> Ok(Get(value, "a"))

\* adaptor(validator, func) and tryAdaptor(validator, func)
adaptor(v, func) == [isFallible |-> FALSE, validator |-> v, func |-> func]
tryAdaptor(v, func) == [isFallible |-> TRUE, validator |-> v, func |-> func]
adapt(v, adaptors) == [k |-> "adapt", validator |-> v, adaptors |-> adaptors]
\* validator.name, as far as the model tells validators apart
NameOf(v) == IF v.k = "wrap" THEN v.name ELSE v.k
\* adaptors.map(a => a.validator.name)
GuardNames(adaptors) == [i \in 1..Len(adaptors) |-> NameOf(adaptors[i].validator)]

RECURSIVE Validate(_, _, _)
RECURSIVE ValuesLoop(_, _, _)
RECURSIVE UnionLoop(_, _, _, _, _)
RECURSIVE ArrayLoop(_, _, _, _, _)
RECURSIVE DictionaryLoop(_, _, _, _, _)
RECURSIVE RecordLoop(_, _, _, _, _)
RECURSIVE TupleLoop(_, _, _, _, _)
RECURSIVE ObjectLoop(_, _, _, _, _)
RECURSIVE ExtraKeyLoop(_, _, _, _)
RECURSIVE IntersectionLoop(_, _, _, _, _)
RECURSIVE AdaptorLoop(_, _, _, _, _)

\* callIsExact(validator, isExact, input)
\* variant that always enters through validate
callIsExactAlwaysLoose(validator, isExact, x) == Validate(validator, x, FALSE)

callIsExact(validator, isExact, x) == Validate(validator, x, isExact)

\* ValuesValidator._validate
ValuesLoop(v, x, i) ==
    IF i > Len(v.values) THEN validatorErr(<<"expected", "values">>, x)
    ELSE IF v.values[i].t = x.t /\ v.values[i] = x THEN Ok(v.values[i])
    ELSE ValuesLoop(v, x, i + 1)

\* UnionValidator._validate: the first member that succeeds
UnionLoop(v, x, isExact, i, seen) ==
    IF i > Len(v.validators) THEN Saw(validatorErr(<<"expected", "union">>, x), seen)
    ELSE LET result == callIsExact(v.validators[i], isExact, x) IN
         IF result.ok THEN Saw(result, seen)
         ELSE UnionLoop(v, x, isExact, i + 1, Then(seen, result))

\* ArrayValidator._validate, from index i - 1 on
ArrayLoop(v, x, isExact, i, seen) ==
    IF i > Len(x.items) THEN Saw(Ok(x), seen)
    ELSE LET result == callIsExact(v.validator, isExact, x.items[i]) IN
         IF ~result.ok
         THEN Saw(Err(<<"array", "index", IndexKey(i - 1)>> \o result.err),
                  Then(seen, result))
         ELSE ArrayLoop(v, x, isExact, i + 1, Then(seen, result))

\* DictionaryValidator._validate over the keys still to visit
DictionaryLoop(v, x, isExact, keys, seen) ==
    IF keys = <<>> THEN Saw(Ok(x), seen)
    ELSE LET result == callIsExact(v.validator, isExact, Get(x, Head(keys))) IN
         IF ~result.ok
         THEN Saw(Err(<<"dictionary", "key", Head(keys)>> \o result.err),
                  Then(seen, result))
         ELSE DictionaryLoop(v, x, isExact, Tail(keys), Then(seen, result))

\* RecordValidator._validate over the declared keys still to visit
RecordLoop(v, x, isExact, keys, seen) ==
    IF keys = <<>> THEN Saw(Ok(x), seen)
    ELSE LET result == callIsExact(v.validator, isExact, Get(x, Head(keys))) IN
         IF ~result.ok
         THEN Saw(validatorErr(<<"record", "key", Head(keys)>> \o result.err,
                              Get(x, Head(keys))),
                  Then(seen, result))
         ELSE RecordLoop(v, x, isExact, Tail(keys), Then(seen, result))

\* TupleValidator._validate: the fixed positions from i - 1 on, then the spread
TupleLoop(v, x, isExact, i, seen) ==
    IF i > Len(v.validators)
    THEN IF v.spread.k # "none"
         THEN LET rest == Arr(SubSeq(x.items, Len(v.validators) + 1, Len(x.items)),
                              NoFields)
                  result == callIsExact(v.spread, isExact, rest)
              IN  IF ~result.ok
                  THEN Saw(Err(<<"tuple", "spread">> \o result.err),
                           Then(seen, result))
                  ELSE Saw(Ok(x), Then(seen, result))
         ELSE Saw(Ok(x), seen)
    ELSE LET value == Get(x, IndexKey(i - 1))
             result == callIsExact(v.validators[i], isExact, value)
         IN  IF ~result.ok
             THEN Saw(Err(<<"tuple", "index", IndexKey(i - 1)>> \o result.err),
                      Then(seen, result))
             ELSE TupleLoop(v, x, isExact, i + 1, Then(seen, result))

\* ObjectValidator._validate, second loop: an input key that is not `in`
\* the declared fields
ExtraKeyLoop(v, x, keys, seen) ==
    IF keys = <<>> THEN Saw(Ok(x), seen)
    ELSE IF ~KeyIn(Head(keys), v.validators)
         THEN Saw(Err(<<"object", "extra key", Head(keys)>>), seen)
         ELSE ExtraKeyLoop(v, x, Tail(keys), seen)

\* ObjectValidator._validate, body of the first loop: input[key] is read
\* (undefined when the key is absent) and handed to the field's validator
\* variant that fails a field that is not Optional when its key is absent
FieldResultRequiresOwnKey(validator, x, key, isExact) ==
    IF key \notin OwnKeys(x) /\ validator.k # "optional"
    THEN Err(<<"missing key">>)
    ELSE callIsExact(validator, isExact, Get(x, key))

FieldResult(validator, x, key, isExact) ==
    callIsExact(validator, isExact, Get(x, key))

\* ObjectValidator._validate, first loop: the declared fields from i on
ObjectLoop(v, x, isExact, i, seen) ==
    IF i > Len(v.validators)
    THEN IF ~isExact THEN Saw(Ok(x), seen)
         ELSE ExtraKeyLoop(v, x, KeySeq(OwnKeys(x)), seen)
    ELSE LET result == FieldResult(v.validators[i].validator, x,
                                   v.validators[i].key, isExact) IN
         IF ~result.ok
         THEN Saw(validatorErr(<<"object", "key", v.validators[i].key>>,
                              Get(x, v.validators[i].key)),
                  Then(seen, result))
         ELSE ObjectLoop(v, x, isExact, i + 1, Then(seen, result))

\* IntersectionValidator._validate: every child in turn, the input returned
IntersectionLoop(v, x, isExact, i, seen) ==
    IF i > Len(v.validators) THEN Saw(Ok(x), seen)
    ELSE LET result == callIsExact(v.validators[i], isExact, x) IN
         IF ~result.ok
         THEN Saw(validatorErr(<<"intersection">> \o result.err, x), Then(seen, result))
         ELSE IntersectionLoop(v, x, isExact, i + 1, Then(seen, result))

\* AdaptorValidator._validate after the base attempt failed: the adaptors
\* from i on
\* variant that returns the failure of a fallible conversion
AdaptorLoopPropagatesFailure(v, x, isExact, i, seen) ==
    IF i > Len(v.adaptors)
    THEN Saw(validatorErr(<<"adapt">> \o GuardNames(v.adaptors), x), seen)
    ELSE LET adaptorResult == callIsExact(v.adaptors[i].validator, isExact, x) IN
         IF ~adaptorResult.ok
         THEN AdaptorLoop(v, x, isExact, i + 1, Then(seen, adaptorResult))
         ELSE Saw(AdaptorFunc(v.adaptors[i].func, adaptorResult.val),
                  Then(Then(seen, adaptorResult),
                       Invoked("conversion", v.adaptors[i].func, adaptorResult.val)))

AdaptorLoop(v, x, isExact, i, seen) ==
    IF i > Len(v.adaptors)
    THEN Saw(validatorErr(<<"adapt">> \o GuardNames(v.adaptors), x), seen)
    ELSE LET adaptorResult == callIsExact(v.adaptors[i].validator, isExact, x) IN
         IF ~adaptorResult.ok
         THEN AdaptorLoop(v, x, isExact, i + 1, Then(seen, adaptorResult))
         ELSE LET adaptorAttempt == AdaptorFunc(v.adaptors[i].func, adaptorResult.val)
                  ran == Then(Then(seen, adaptorResult),
                              Invoked("conversion", v.adaptors[i].func, adaptorResult.val))
              IN  IF adaptorAttempt.ok
                  THEN Saw(adaptorAttempt, ran)
                  ELSE AdaptorLoop(v, x, isExact, i + 1, ran)

\* OptionalValidator._validate
\* variant that hands undefined to the inner validator too
OptionalValidateAlwaysDelegates(v, x, isExact) == callIsExact(v.validator, isExact, x)

OptionalValidate(v, x, isExact) ==
    IF x.t = "undefined" THEN Ok(Undef)
    ELSE callIsExact(v.validator, isExact, x)

\* MaybeValidator._validate
MaybeValidate(v, x, isExact) ==
    IF x.t = "null" \/ x.t = "undefined" THEN Ok(None)
    ELSE LET result == callIsExact(v.validator, isExact, x) IN
         IF result.ok THEN Saw(Ok(Some(result.val)), Effects(result))
         ELSE Saw(Err(<<"maybe">> \o result.err), Effects(result))

\* whether callIsExact(validator, isExact, x) calls _validate of
\* recursive(fn) with this same x again: the validators that hand their own
\* input on are Recursive, Optional, Maybe, Union, Intersection, Class and
\* Adaptor; the others hand on the items and fields of x
RECURSIVE Reenters(_, _, _, _)
RECURSIVE ReentersFrom(_, _, _, _, _, _)
\* the validators from i on, tried in order while each returns ok = whileOk
ReentersFrom(validators, whileOk, fn, x, isExact, i) ==
    IF i > Len(validators) THEN FALSE
    ELSE IF Reenters(validators[i], fn, x, isExact) THEN TRUE
    ELSE /\ callIsExact(validators[i], isExact, x).ok = whileOk
         /\ ReentersFrom(validators, whileOk, fn, x, isExact, i + 1)

Reenters(validator, fn, x, isExact) ==
    CASE validator.k = "recursive" ->
            validator.fn = fn \/ Reenters(Supplier(validator.fn), fn, x, isExact)
      [] validator.k = "optional" ->
            x.t # "undefined" /\ Reenters(validator.validator, fn, x, isExact)
      [] validator.k = "maybe" ->
            x.t \notin {"null", "undefined"}
                /\ Reenters(validator.validator, fn, x, isExact)
      [] validator.k = "union" ->
            ReentersFrom(validator.validators, FALSE, fn, x, isExact, 1)
      [] validator.k = "intersection" ->
            ReentersFrom(validator.validators, TRUE, fn, x, isExact, 1)
      [] validator.k = "cls" ->
            ~(x.t = "instance" /\ x.clz = validator.clz)
                /\ Reenters(validator.constructorArgsValidator, fn, x, isExact)
      [] validator.k = "adapt" ->
            \/ Reenters(validator.validator, fn, x, isExact)
            \/ /\ ~callIsExact(validator.validator, isExact, x).ok
               /\ ReentersFrom([i \in 1..Len(validator.adaptors) |->
                                   validator.adaptors[i].validator],
                               FALSE, fn, x, isExact, 1)
      [] OTHER -> FALSE

\* RecursiveValidator._validate: a call that comes back to this node with
\* the same input never returns, the call stack overflows
\* variant that keeps the validator of the first resolution and does not
\* call the supplier
RecursiveValidateMemoized(v, x, isExact) ==
    LET validator == Supplier(v.fn) IN
    IF Reenters(validator, v.fn, x, isExact) THEN Raise("RangeError")
    ELSE Deeper(callIsExact(validator, isExact, x))

\* variant that resolves the supplier's validator without entering it
RecursiveValidateResolvesOnly(v, x, isExact) ==
    Saw(Ok(x), Invoked("supplier", v.fn.name, Undef))

RecursiveValidate(v, x, isExact) ==
    LET validator == Supplier(v.fn) IN
    IF Reenters(validator, v.fn, x, isExact)
    THEN Saw(Raise("RangeError"), Invoked("supplier", v.fn.name, Undef))
    ELSE Deeper(Saw(callIsExact(validator, isExact, x),
                    Invoked("supplier", v.fn.name, Undef)))

\* ArrayValidator._validate
ArrayValidate(v, x, isExact) ==
    IF ~IsArray(x) THEN validatorErr(<<"expected", "array">>, x)
    ELSE ArrayLoop(v, x, isExact, 1, NoEffects)

\* DictionaryValidator._validate
DictionaryValidate(v, x, isExact) ==
    IF ~isObject(x) \/ IsArray(x) THEN validatorErr(<<"expected", "dictionary">>, x)
    ELSE DictionaryLoop(v, x, isExact, KeySeq(OwnKeys(x)), NoEffects)

\* RecordValidator._validate
RecordValidate(v, x, isExact) ==
    IF ~isObject(x) THEN validatorErr(<<"expected", "record">>, x)
    ELSE RecordLoop(v, x, isExact, v.keys, NoEffects)

\* TupleValidator._validate
\* variant without the upper bound on the input's length
TupleValidateNoUpperBound(v, x, isExact) ==
    IF \/ ~IsArray(x)
       \/ Len(x.items) < v.minLength
    THEN validatorErr(<<"expected", "tuple">>, x)
    ELSE TupleLoop(v, x, isExact, 1, NoEffects)

TupleValidate(v, x, isExact) ==
    IF \/ ~IsArray(x)
       \/ Len(x.items) < v.minLength
       \/ (v.spread.k = "none" /\ Len(x.items) > Len(v.validators))
    THEN validatorErr(<<"expected", "tuple">>, x)
    ELSE TupleLoop(v, x, isExact, 1, NoEffects)

\* ObjectValidator._validate
\* variant that never runs the extra key loop
ObjectValidateAlwaysLoose(v, x, isExact) ==
    IF ~isObject(x) THEN Saw(validatorErr(<<"object", "not an object">>, x), Received(isExact))
    ELSE ObjectLoop(v, x, FALSE, 1, Received(isExact))

\* variant that runs the extra key loop in loose mode instead
ObjectValidateExtraKeysWhenLoose(v, x, isExact) ==
    IF ~isObject(x) THEN Saw(validatorErr(<<"object", "not an object">>, x), Received(isExact))
    ELSE ObjectLoop(v, x, ~isExact, 1, Received(isExact))

ObjectValidate(v, x, isExact) ==
    IF ~isObject(x) THEN Saw(validatorErr(<<"object", "not an object">>, x), Received(isExact))
    ELSE ObjectLoop(v, x, isExact, 1, Received(isExact))

\* IntersectionValidator._validate
\* variant that leaves out the first child
IntersectionValidateSkipsFirst(v, x, isExact) == IntersectionLoop(v, x, isExact, 2, NoEffects)

IntersectionValidate(v, x, isExact) == IntersectionLoop(v, x, isExact, 1, NoEffects)

\* UnionValidator._validate
UnionValidate(v, x, isExact) == UnionLoop(v, x, isExact, 1, NoEffects)

\* ClassValidator._validate
ClassValidate(v, x, isExact) ==
    IF x.t = "instance" /\ x.clz = v.clz THEN Ok(x)
    ELSE LET argsResult == callIsExact(v.constructorArgsValidator, isExact, x) IN
         IF ~argsResult.ok
         THEN Saw(validatorErr(<<"expected", "instance or args">>, x), Effects(argsResult))
         ELSE Saw(Ok(Construct(v.clz, argsResult.val)),
                  Then(Effects(argsResult), Invoked("constructor", v.clz, argsResult.val)))

\* func(fn, argsValidator) == new FunctionValidator(fn, argsValidator)
func(fn, v) == [k |-> "func", fn |-> fn, argsValidator |-> v]
\* fn(...args) for the functions handed to func()
FuncApply(fn, argsValue) ==
    CASE fn = "first" -> IF Len(argsValue.items) > 0 THEN argsValue.items[1] ELSE Undef
      [] fn = "pack" -> Arr(argsValue.items, NoFields)

\* FunctionValidator.validateCall
\* variant that calls fn on the input without validating it
validateCallUnchecked(v, x) ==
    IF ~IsArray(x) THEN validatorErr(<<"expected", "args to call">>, x)
    ELSE Saw(Ok(FuncApply(v.fn, x)), Invoked("function", v.fn, x))

validateCall(v, x) ==
    LET argsResult == Validate(v.argsValidator, x, FALSE) IN
    IF ~argsResult.ok
    THEN Saw(validatorErr(<<"expected", "args to call">>, x), Effects(argsResult))
    ELSE Saw(Ok(FuncApply(v.fn, argsResult.val)),
             Then(Effects(argsResult), Invoked("function", v.fn, argsResult.val)))

\* AdaptorValidator._validate
AdaptorValidate(v, x, isExact) ==
    LET baseAttempt == callIsExact(v.validator, isExact, x) IN
    IF baseAttempt.ok THEN baseAttempt
    ELSE AdaptorLoop(v, x, isExact, 1, Effects(baseAttempt))

\* validate(input) and validateExact(input) of SameValidator and of
\* CombinatorValidator: _validate of the node's class
Validate(v, x, isExact) ==
    CASE v.k = "wrap" -> WrapFunc(v.name, x)
      [] v.k = "values" -> ValuesLoop(v, x, 1)
      [] v.k = "union" -> UnionValidate(v, x, isExact)
      [] v.k = "optional" -> OptionalValidate(v, x, isExact)
      [] v.k = "maybe" -> MaybeValidate(v, x, isExact)
      [] v.k = "recursive" -> RecursiveValidate(v, x, isExact)
      [] v.k = "array" -> ArrayValidate(v, x, isExact)
      [] v.k = "dictionary" -> DictionaryValidate(v, x, isExact)
      [] v.k = "record" -> RecordValidate(v, x, isExact)
      [] v.k = "tuple" -> TupleValidate(v, x, isExact)
      [] v.k = "object" -> ObjectValidate(v, x, isExact)
      [] v.k = "intersection" -> IntersectionValidate(v, x, isExact)
      [] v.k = "cls" -> ClassValidate(v, x, isExact)
      [] v.k = "adapt" -> AdaptorValidate(v, x, isExact)

(***************************************************************************)
(* intersection(...validators)                                             *)
(***************************************************************************)
\* variant of the loop that files a nested intersection with the others
RECURSIVE ClassifyKeepsNested(_, _)
ClassifyKeepsNested(validatorsQueue, lists) ==
    IF validatorsQueue = <<>> THEN lists
    ELSE LET validator == Head(validatorsQueue)
             rest == Tail(validatorsQueue)
         IN  CASE validator.k = "object" ->
                    ClassifyKeepsNested(rest, [lists EXCEPT !.objectValidators = Append(@, validator)])
               [] validator.k = "array" ->
                    ClassifyKeepsNested(rest, [lists EXCEPT !.arrayValidators = Append(@, validator)])
               [] validator.k = "union" ->
                    ClassifyKeepsNested(rest, [lists EXCEPT !.unionValidators = Append(@, validator)])
               [] OTHER ->
                    ClassifyKeepsNested(rest, [lists EXCEPT !.otherValidators = Append(@, validator)])

\* the classification loop over validatorsQueue
RECURSIVE Classify(_, _)
Classify(validatorsQueue, lists) ==
    IF validatorsQueue = <<>> THEN lists
    ELSE LET validator == Head(validatorsQueue)
             rest == Tail(validatorsQueue)
         IN  CASE validator.k = "object" ->
                    Classify(rest, [lists EXCEPT !.objectValidators = Append(@, validator)])
               [] validator.k = "array" ->
                    Classify(rest, [lists EXCEPT !.arrayValidators = Append(@, validator)])
               [] validator.k = "union" ->
                    Classify(rest, [lists EXCEPT !.unionValidators = Append(@, validator)])
               [] validator.k = "intersection" ->
                    Classify(rest \o validator.validators, lists)
               [] OTHER ->
                    Classify(rest, [lists EXCEPT !.otherValidators = Append(@, validator)])

\* every declared field of every object validator, in order
RECURSIVE AllFields(_)
AllFields(objectValidators) ==
    IF objectValidators = <<>> THEN <<>>
    ELSE Head(objectValidators).validators \o AllFields(Tail(objectValidators))

\* objectKeyValidators: the keys in order of first appearance ...
RECURSIVE FirstKeys(_, _)
FirstKeys(fields, known) ==
    IF fields = <<>> THEN <<>>
    ELSE IF Head(fields).key \in known THEN FirstKeys(Tail(fields), known)
    ELSE <<Head(fields).key>> \o FirstKeys(Tail(fields), known \cup {Head(fields).key})

\* ... and the validators gathered for one key
\* variant that keeps only the first validator declared for the key
KeyValidatorsFirstOnly(fields, key) ==
    LET own == SelectSeq(fields, LAMBDA field : field.key = key)
    IN  <<own[1].validator>>

KeyValidators(fields, key) ==
    LET own == SelectSeq(fields, LAMBDA field : field.key = key)
    IN  [i \in 1..Len(own) |-> own[i].validator]

\* the siblings of one per-branch intersection of the union branch
\* variant that intersects a member with nothing but itself
UnionBranchDropsRest(validator, rest, objectValidators, arrayValidators, otherValidators) ==
    <<validator>> \o objectValidators \o arrayValidators \o otherValidators

UnionBranch(validator, rest, objectValidators, arrayValidators, otherValidators) ==
    <<validator>> \o rest \o objectValidators \o arrayValidators \o otherValidators

\* finalValidators: the opaque siblings, then the merged object, then the array
\* variant that starts finalValidators empty
FinalValidatorsDropsOthers(otherValidators, merged, arrayValidator) ==
    IF merged \o arrayValidator # <<>> THEN merged \o arrayValidator ELSE otherValidators

FinalValidators(otherValidators, merged, arrayValidator) ==
    otherValidators \o merged \o arrayValidator

RECURSIVE intersection(_)
intersection(validators) ==
    LET lists == Classify(validators,
                          [objectValidators |-> <<>>, arrayValidators |-> <<>>,
                           unionValidators |-> <<>>, otherValidators |-> <<>>])
        objectValidators == lists.objectValidators
        arrayValidators == lists.arrayValidators
        unionValidators == lists.unionValidators
        otherValidators == lists.otherValidators
    IN  IF unionValidators # <<>>
        THEN LET unionValidator == Head(unionValidators)
                 rest == Tail(unionValidators)
             IN  UnionValidator(
                    [i \in 1..Len(unionValidator.validators) |->
                        intersection(UnionBranch(unionValidator.validators[i], rest,
                                                 objectValidators, arrayValidators,
                                                 otherValidators))])
        ELSE LET fields == AllFields(objectValidators)
                 keys == FirstKeys(fields, {})
                 finalKeyValidators ==
                    [i \in 1..Len(keys) |->
                        LET keyValidators == KeyValidators(fields, keys[i])
                        IN  Field(keys[i],
                                  IF Len(keyValidators) = 1 THEN keyValidators[1]
                                  ELSE intersection(keyValidators))]
                 merged == IF objectValidators # <<>>
                           THEN <<object(finalKeyValidators)>> ELSE <<>>
                 arrayValidator ==
                    IF arrayValidators = <<>> THEN <<>>
                    ELSE IF Len(arrayValidators) = 1 THEN <<arrayValidators[1]>>
                    ELSE <<array(intersection(
                            [i \in 1..Len(arrayValidators) |->
                                arrayValidators[i].validator]))>>
             IN  IntersectionValidator(
                    FinalValidators(otherValidators, merged, arrayValidator))

(***************************************************************************)
(* partial(validator) and required(validator)                              *)
(***************************************************************************)
\* variant that leaves the validator as it is
partialWrapOptionalKeeps(validator) == validator

partialWrapOptional(validator) ==
    IF validator.k = "optional" THEN validator ELSE OptionalValidator(validator)

RECURSIVE partial(_)
partial(validator) ==
    CASE validator.k = "object" ->
            object([i \in 1..Len(validator.validators) |->
                       Field(validator.validators[i].key,
                             partialWrapOptional(validator.validators[i].validator))])
      [] validator.k = "array" ->
            IF validator.validator.k = "optional" THEN validator
            ELSE array(OptionalValidator(validator.validator))
      [] validator.k = "tuple" ->
            TupleValidator([i \in 1..Len(validator.validators) |->
                               partialWrapOptional(validator.validators[i])],
                           IF validator.spread.k # "none"
                           THEN partial(validator.spread) ELSE NoValidator)
      [] validator.k = "dictionary" ->
            IF validator.validator.k = "optional" THEN validator
            ELSE dictionary(OptionalValidator(validator.validator))
      [] validator.k = "union" ->
            UnionValidator([i \in 1..Len(validator.validators) |->
                               partial(validator.validators[i])])
      [] validator.k = "intersection" ->
            IntersectionValidator([i \in 1..Len(validator.validators) |->
                                      partial(validator.validators[i])])
      [] OTHER -> validator

\* variant that leaves the validator as it is
requiredUnwrapOptionalKeeps(validator) == validator

requiredUnwrapOptional(validator) ==
    IF validator.k = "optional" THEN validator.validator ELSE validator

requiredUnwrapUndefinable(initial) ==
    LET validator == requiredUnwrapOptional(initial) IN
    CASE validator.k = "union" ->
            LET finalValidators == SelectSeq(validator.validators, NotUndefinedLiteral)
            IN  IF Len(finalValidators) = 1 THEN finalValidators[1]
                ELSE UnionValidator(finalValidators)
      [] validator.k = "values" ->
            Values(SelectSeq(validator.values, LAMBDA value : value # Undef), "")
      [] OTHER -> validator

RECURSIVE required(_)
required(validator) ==
    CASE validator.k = "object" ->
            object([i \in 1..Len(validator.validators) |->
                       Field(validator.validators[i].key,
                             requiredUnwrapOptional(validator.validators[i].validator))])
      [] validator.k = "array" ->
            array(requiredUnwrapUndefinable(validator.validator))
      [] validator.k = "tuple" ->
            TupleValidator([i \in 1..Len(validator.validators) |->
                               requiredUnwrapOptional(validator.validators[i])],
                           IF validator.spread.k # "none"
                           THEN required(validator.spread) ELSE NoValidator)
      [] validator.k = "union" ->
            UnionValidator([i \in 1..Len(validator.validators) |->
                               required(validator.validators[i])])
      [] validator.k = "intersection" ->
            IntersectionValidator([i \in 1..Len(validator.validators) |->
                                      required(validator.validators[i])])
      [] OTHER -> validator

(***************************************************************************)
(* nonnullable.                                                            *)
(***************************************************************************)
NotNil(value) == value # Null /\ value # Undef
\* validator !== undefinedLiteral && validator !== nullLiteral (references)
NotNilLiteral(v) ==
    ~(v.k = "values" /\ v.id \in {"undefinedLiteral", "nullLiteral"})

RECURSIVE nonnullable(_)
nonnullable(validator) ==
    CASE validator.k = "optional" -> nonnullable(validator.validator)
      [] validator.k = "values" ->
            Values(SelectSeq(validator.values, NotNil), "")
      [] validator.k = "union" ->
            LET finalValidators == SelectSeq(validator.validators, NotNilLiteral)
            IN  IF Len(finalValidators) = 1 THEN finalValidators[1]
                ELSE UnionValidator(finalValidators)
      [] OTHER -> validator

(***************************************************************************)
(* pick and omit.                                                          *)
(***************************************************************************)
Range(s) == {s[i] : i \in 1..Len(s)}

\* the keys of finalKeyValidators as `for (const key in validators)` visits
\* them: index keys in ascending order, then the others in the order of
\* their first assignment
RECURSIVE FirstAssigned(_)
FirstAssigned(keys) ==
    IF keys = <<>> THEN <<>>
    ELSE LET before == FirstAssigned(SubSeq(keys, 1, Len(keys) - 1))
             key == keys[Len(keys)]
         IN  IF key \in Range(before) THEN before ELSE Append(before, key)
IsIndexKey(key) == key \in {"0", "1", "2", "3", "4"}
PropertyOrder(keys) ==
    SelectSeq(KeyOrder, LAMBDA key : IsIndexKey(key) /\ key \in Range(keys))
        \o SelectSeq(FirstAssigned(keys), LAMBDA key : ~IsIndexKey(key))

\* validator.validators[key] of an object (field map) or a tuple (array)
ValidatorAt(validator, key) ==
    IF validator.k = "object" THEN FieldAt(validator.validators, key)
    ELSE validator.validators[(CHOOSE i \in 0..(Len(validator.validators) - 1) :
                                  IndexKey(i) = key) + 1]

\* variant that keeps every declared field of an object
pickKeepsAll(validator, keys) ==
    IF validator.k = "object" THEN validator
    ELSE IF validator.k = "tuple"
    THEN object([i \in 1..Len(validator.validators) |->
                    Field(IndexKey(i - 1), validator.validators[i])])
    ELSE validator

pick(validator, keys) ==
    IF validator.k \in {"object", "tuple"}
    THEN LET order == PropertyOrder(keys)
         IN  object([i \in 1..Len(order) |->
                        Field(order[i], ValidatorAt(validator, order[i]))])
    ELSE validator

omit(validator, keys) ==
    IF validator.k = "object"
    THEN object(SelectSeq(validator.validators, LAMBDA field : field.key \notin Range(keys)))
    ELSE validator

(***************************************************************************)
(* The program: it builds one validator tree with a constructor, then      *)
(* validates inputs against it, any number of times, in either mode.       *)
(***************************************************************************)
\* sequences of 1..n elements of S
SeqsUpTo(S, n) == UNION {[1..m -> S] : m \in 1..n}
\* sequences of 0..n elements of S
Seqs0UpTo(S, n) == UNION {[1..m -> S] : m \in 0..n}
\* plain objects with some of the given keys, valued by vals[key]
ObjectsOver(keys, vals) ==
    {Obj(f) : f \in UNION {{g \in [S -> UNION {vals[key] : key \in S}] :
                               \A key \in S : g[key] \in vals[key]} : S \in SUBSET keys}}

\* the suppliers a run may invoke in all before the model stops counting
MaxSupplied == 4
\* new RecursiveValidator(fn): name is not set and fn has not run
Unresolved == [named |-> FALSE, supplied |-> 0]

Init ==
    /\ op = "none"
    /\ args = <<>>
    /\ node = NoValidator
    /\ pc = "start"
    /\ input = Undef
    /\ mode = FALSE
    /\ res = Err(<<"no call yet">>)
    /\ memo = Unresolved

\* const node = constructor(...validators)
Build(name, validators, built) ==
    /\ pc = "start"
    /\ op' = name
    /\ args' = validators
    /\ node' = built
    /\ pc' = "built"
    /\ memo' = Unresolved
    /\ UNCHANGED <<input, mode, res>>

\* variant in which a validation stores the tree with its wrappers removed
CallStoresRequired(x, isExact) ==
    LET result == Outcome(callIsExact(node, isExact, x))
        supplied == Len(CallsOf("supplier", result))
    IN  /\ pc = "built"
        /\ memo.supplied + supplied <= MaxSupplied
        /\ input' = x /\ mode' = isExact /\ res' = result
        /\ memo' = [named |-> memo.named \/ supplied > 0,
                    supplied |-> memo.supplied + supplied]
        /\ pc' = "called"
        /\ node' = required(node)
        /\ UNCHANGED <<op, args>>

\* node.validate(x) or node.validateExact(x)
Call(x, isExact) ==
    LET result == Outcome(callIsExact(node, isExact, x))
        supplied == Len(CallsOf("supplier", result))
    IN  /\ pc = "built"
        /\ memo.supplied + supplied <= MaxSupplied
        /\ input' = x
        /\ mode' = isExact
        /\ res' = result
        /\ memo' = [named |-> memo.named \/ supplied > 0,
                    supplied |-> memo.supplied + supplied]
        /\ pc' = "called"
        /\ UNCHANGED <<op, args, node>>

\* node.validateCall(x), for a FunctionValidator
CallFunction(x) ==
    /\ pc = "built"
    /\ node.k = "func"
    /\ input' = x
    /\ mode' = FALSE
    /\ res' = Outcome(validateCall(node, x))
    /\ pc' = "called"
    /\ UNCHANGED <<op, args, node, memo>>

\* the caller drops the Result; the tree is ready for the next call
Return ==
    /\ pc = "called"
    /\ pc' = "built"
    /\ input' = Undef
    /\ mode' = FALSE
    /\ res' = Err(<<"no call yet">>)
    /\ UNCHANGED <<op, args, node, memo>>

(***************************************************************************)
(* Intersections: the siblings and inputs of SpecIntersection.             *)
(***************************************************************************)
ObjectSiblings ==
    {object(<<Field("a", number)>>),
     object(<<Field("a", string)>>),
     object(<<Field("b", string)>>),
     object(<<Field("a", union(<<number, string>>)), Field("b", optional(string))>>)}
ArraySiblings == {array(string), array(union(<<string, number>>))}
TupleSiblings == {tuple(<<string>>), tuple(<<string, optional(number)>>)}
UnionSiblings ==
    {union(<<object(<<Field("a", string)>>), object(<<Field("b", string)>>)>>),
     union(<<object(<<Field("c", boolean)>>), array(number), string>>)}
IntersectionSiblings ==
    {intersection(<<object(<<Field("a", string)>>), array(string)>>)}
OpaqueSiblings == {string, unknown}
Siblings ==
    ObjectSiblings \cup ArraySiblings \cup TupleSiblings \cup UnionSiblings
        \cup IntersectionSiblings \cup OpaqueSiblings

IntersectionInputs ==
    {Undef, Null, Str("x"), Num("1")}
    \cup ObjectsOver({"a", "b", "c"},
                     [a |-> {Str("x"), Num("1"), Undef}, b |-> {Str("x"), Num("1")},
                      c |-> {Bool("true")}])
    \cup {Obj([a |-> Num("1"), b |-> Str("x"), toString |-> Str("x")]),
          Obj([a |-> Str("x"), b |-> Str("y")]),
          Arr(<<Str("a")>>, [a |-> Str("a")])}
    \cup {Arr(items, side.f) :
            items \in Seqs0UpTo({Str("x"), Num("1")}, MaxLen),
            side \in ObjectsOver({"a", "b"}, [a |-> {Str("x"), Num("1")}, b |-> {Str("x")}])}

BuildIntersection ==
    /\ pc = "start"
    /\ \E validators \in SeqsUpTo(Siblings, MaxSibs) :
            Build("intersection", validators, intersection(validators))

CallIntersection ==
    /\ pc = "built"
    /\ \E x \in IntersectionInputs, isExact \in BOOLEAN : Call(x, isExact)

NextIntersection == BuildIntersection \/ CallIntersection \/ Return

SpecIntersection == Init /\ [][NextIntersection]_vars

(***************************************************************************)
(* Vocabulary of the properties below.                                     *)
(***************************************************************************)
\* a call of validate / validateExact on the tree built by `name` returned
Called(name) == op = name /\ pc = "called"
\* the call came back with a Result: no exception left it
Returned == res.raised = {}
KindsOf(validators) == {validators[i].k : i \in 1..Len(validators)}
\* every validator of the list accepts x on its own
AllAccept(validators, x, isExact) ==
    \A i \in 1..Len(validators) : Validate(validators[i], x, isExact).ok
\* the list without its i-th element
Without(validators, i) ==
    SubSeq(validators, 1, i - 1) \o SubSeq(validators, i + 1, Len(validators))
\* the object validators of a list and the keys they declare
ObjectsOf(validators) == SelectSeq(validators, LAMBDA v : v.k = "object")
ArraysOf(validators) == SelectSeq(validators, LAMBDA v : v.k = "array")
DeclaredKeys(validators) ==
    UNION {FieldKeys(validators[i].validators) : i \in 1..Len(validators)}
\* x is an object and every field every object validator declares is valid
FieldsValid(objectValidators, x, isExact) ==
    /\ isObject(x)
    /\ \A i \in 1..Len(objectValidators) :
          \A j \in 1..Len(objectValidators[i].validators) :
             LET field == objectValidators[i].validators[j]
             IN  Validate(field.validator, Get(x, field.key), isExact).ok
\* x is an array and every element satisfies the item of every array validator
ItemsValid(arrayValidators, x, isExact) ==
    /\ IsArray(x)
    /\ \A i \in 1..Len(arrayValidators) : \A n \in 1..Len(x.items) :
          Validate(arrayValidators[i].validator, x.items[n], isExact).ok

Distributed(validators, i) ==
    union([j \in 1..Len(validators[i].validators) |->
              intersection(<<validators[i].validators[j]>> \o Without(validators, i))])

\* every way to replace each union sibling by one of its branches
RECURSIVE Choices(_)
Choices(validators) ==
    IF validators = <<>> THEN {<<>>}
    ELSE LET first == Head(validators)
             branches == IF first.k = "union"
                         THEN {first.validators[j] : j \in 1..Len(first.validators)}
                         ELSE {first}
         IN  {<<branch>> \o others : branch \in branches,
                                     others \in Choices(Tail(validators))}

TupleMixed(validators) ==
    /\ "tuple" \in KindsOf(validators)
    /\ KindsOf(validators) \cap {"array", "object"} # {}

C3_TupleMixedRejectsAll ==
    (Called("intersection") /\ TupleMixed(args)) => ~res.ok

(***************************************************************************)
(* C3 (amended): such an intersection is no always-failing node.  Under    *)
(* validate it accepts exactly the inputs every sibling accepts:           *)
(* intersection(tuple(string), array(string)) accepts ["x"] in both modes  *)
(* and intersection(object({a: string}), tuple(string)) accepts, under     *)
(* validate, the array ["a"] that carries the side field a = "a".          *)
(***************************************************************************)
C3_TupleMixedIsConjunction ==
    (Called("intersection") /\ TupleMixed(args)) =>
        /\ mode = FALSE => (res.ok <=> AllAccept(args, input, FALSE))
        /\ (/\ args = <<tuple(<<string>>), array(string)>>
            /\ input = Arr(<<Str("x")>>, NoFields)) => res.ok
        /\ (/\ args = <<object(<<Field("a", string)>>), tuple(<<string>>)>>
            /\ input = Arr(<<Str("a")>>, [a |-> Str("a")])
            /\ mode = FALSE) => res.ok

\* the object-and-tuple intersection accepting an array with a side field
C3_Witness ==
    /\ Called("intersection") /\ mode = FALSE /\ res.ok
    /\ args = <<object(<<Field("a", string)>>), tuple(<<string>>)>>
    /\ input = Arr(<<Str("a")>>, [a |-> Str("a")])

(***************************************************************************)
(* C4: for an intersection of Object siblings the merged validator checks  *)
(* the union of all declared field names, and for each key the value must  *)
(* satisfy every sibling's validator for that key; so                      *)
(* intersection(object({a: number}), object({b: string})) accepts          *)
(* {a:1,b:"x"} and rejects {a:1}, {b:"x"} and {a:"x",b:"x"}.               *)
(***************************************************************************)
C4_ObjectsMergeByKey ==
    (Called("intersection") /\ KindsOf(args) = {"object"}) =>
        /\ Len(node.validators) = 1
        /\ node.validators[1].k = "object"
        /\ FieldKeys(node.validators[1].validators) = DeclaredKeys(args)
        /\ res.ok => FieldsValid(args, input, mode)
        /\ (mode = FALSE /\ FieldsValid(args, input, FALSE)) => res.ok
        /\ args = <<object(<<Field("a", number)>>), object(<<Field("b", string)>>)>> =>
              /\ input = Obj([a |-> Num("1"), b |-> Str("x")]) => res.ok
              /\ input \in {Obj([a |-> Num("1")]), Obj([b |-> Str("x")]),
                            Obj([a |-> Str("x"), b |-> Str("y")])} => ~res.ok

\* two objects that both declare the key a, accepted
C4_Witness ==
    /\ Called("intersection") /\ res.ok /\ Len(args) = 2
    /\ KindsOf(args) = {"object"}
    /\ "a" \in FieldKeys(args[1].validators) \cap FieldKeys(args[2].validators)
    /\ args[1] # args[2]

(***************************************************************************)
(* C5 (as stated): an intersection of Tuple siblings only behaves as one   *)
(* positionally merged tuple: its number of positions is the maximum       *)
(* sibling length, and position i holds the validators of every sibling    *)
(* that reaches position i (one as-is, several intersected).               *)
(***************************************************************************)
MaxPositions(validators) ==
    CHOOSE n \in {Len(validators[i].validators) : i \in 1..Len(validators)} :
        \A i \in 1..Len(validators) : Len(validators[i].validators) <= n
ContributorsAt(validators, position) ==
    LET reaching == SelectSeq(validators, LAMBDA v : Len(v.validators) >= position)
    IN  [i \in 1..Len(reaching) |-> reaching[i].validators[position]]
MergedTuple(validators) ==
    tuple([position \in 1..MaxPositions(validators) |->
              LET contributors == ContributorsAt(validators, position)
              IN  IF Len(contributors) = 1 THEN contributors[1]
                  ELSE intersection(contributors)])

C5_TuplesMergePositionally ==
    (Called("intersection") /\ KindsOf(args) = {"tuple"}) =>
        (res.ok <=> Validate(MergedTuple(args), input, mode).ok)

(***************************************************************************)
(* C5 (amended): Tuple siblings are not merged.  Each one stays a child of *)
(* the Intersection node and validates the whole input by itself, so an    *)
(* input is accepted iff every sibling tuple accepts it: its length must   *)
(* fit every sibling (not only the longest) and each element must satisfy  *)
(* the validator every sibling has at its position.                        *)
(***************************************************************************)
C5_TuplesEachValidate ==
    (Called("intersection") /\ KindsOf(args) = {"tuple"}) =>
        /\ node.k = "intersection" /\ node.validators = args
        /\ res.ok <=> AllAccept(args, input, mode)
        /\ res.ok =>
              /\ IsArray(input)
              /\ \A i \in 1..Len(args) :
                    /\ args[i].spread.k = "none"
                          => Len(input.items) <= Len(args[i].validators)
                    /\ \A j \in 1..Len(input.items) :
                          j <= Len(args[i].validators) =>
                             Validate(args[i].validators[j], input.items[j], mode).ok

\* a one-position and a two-position tuple on a one-element array
C5_Witness ==
    /\ Called("intersection") /\ res.ok
    /\ args = <<tuple(<<string>>), tuple(<<string, optional(number)>>)>>
    /\ input = Arr(<<Str("x")>>, NoFields)

(***************************************************************************)
(* C6 (as stated): the object produced by merging Object siblings (alone   *)
(* or as the side-object of an Array intersection) validates with loose    *)
(* semantics under both entry points: validate and validateExact both      *)
(* accept an input whose elements satisfy the items and whose declared     *)
(* fields are valid, whatever other keys the input has.                    *)
(***************************************************************************)
ObjectMerge(validators) ==
    /\ "object" \in KindsOf(validators)
    /\ KindsOf(validators) \subseteq {"object", "array"}
\* the declared fields are valid and, with Array siblings, so are the elements
DeclaredValid(validators, x, isExact) ==
    /\ FieldsValid(ObjectsOf(validators), x, isExact)
    /\ ArraysOf(validators) # <<>> => ItemsValid(ArraysOf(validators), x, isExact)
\* the own keys of x that no Object sibling declares
UndeclaredKeys(validators, x) == OwnKeys(x) \ DeclaredKeys(ObjectsOf(validators))

MaxFields == 2
\* the names a field map declares, in declaration order
FieldNames == <<"a", "b", "c">>
FieldValidators ==
    {string, number, unknown, optional(string), undefinable(string)}
FieldMaps ==
    {[i \in 1..Len(validators) |-> Field(FieldNames[i], validators[i])] :
        validators \in SeqsUpTo(FieldValidators, MaxFields)}
ObjectInputs ==
    {Undef, Null, Str("x"), Arr(<<>>, NoFields), Arr(<<Str("x")>>, NoFields),
     Arr(<<>>, [a |-> Str("x")])}
    \cup ObjectsOver({"a", "b", "c", "toString"},
                     [a |-> {Str("x"), Num("1"), Undef},
                      b |-> {Str("x"), Num("1"), Undef},
                      c |-> {Num("1")},
                      toString |-> {Num("1")}])

BuildObject ==
    /\ pc = "start"
    /\ \E fields \in FieldMaps : Build("object", fields, object(fields))

CallObject ==
    /\ pc = "built"
    /\ \E x \in ObjectInputs, isExact \in BOOLEAN : Call(x, isExact)

NextObject == BuildObject \/ CallObject \/ Return

SpecObject == Init /\ [][NextObject]_vars

(***************************************************************************)
(* C7: for an object(fields) node, validate accepts an input iff it is an  *)
(* object and every declared field's value is valid, ignoring undeclared   *)
(* keys; validateExact accepts iff validate accepts and every key of the   *)
(* input is declared.  For object({a: string}): {a:"x"} passes both,       *)
(* {a:"x",b:1} passes loose and fails exact, {} fails both.                *)
(***************************************************************************)
\* every declared field's value is valid
DeclaredFieldsValid(fields, x, isExact) ==
    /\ isObject(x)
    /\ \A j \in 1..Len(fields) :
          Validate(fields[j].validator, Get(x, fields[j].key), isExact).ok

C7_ObjectLooseAndExact ==
    Called("object") =>
        /\ mode = FALSE => (res.ok <=> DeclaredFieldsValid(args, input, FALSE))
        /\ mode = TRUE =>
              (res.ok <=> /\ DeclaredFieldsValid(args, input, TRUE)
                          /\ OwnKeys(input) \subseteq FieldKeys(args))
        /\ args = <<Field("a", string)>> =>
              /\ input = Obj([a |-> Str("x")]) => res.ok
              /\ input = Obj([a |-> Str("x"), b |-> Num("1")]) => (res.ok <=> mode = FALSE)
              /\ input = Obj(NoFields) => ~res.ok

(***************************************************************************)
(* C9 (as stated): object validation distinguishes an absent key from a    *)
(* key present with value undefined: a declared field that is not Optional *)
(* is not satisfied by an absent key, even when its validator accepts the  *)
(* value undefined; an Optional field is satisfied by absence and by a     *)
(* present undefined.                                                      *)
(***************************************************************************)
\* the fields other than the j-th are valid, so the j-th one decides
OthersValid(fields, x, isExact, j) ==
    \A i \in 1..Len(fields) :
        i # j => Validate(fields[i].validator, Get(x, fields[i].key), isExact).ok

C9_AbsentKeyDistinguished ==
    (Called("object") /\ isObject(input)) =>
        \A j \in 1..Len(args) :
            /\ (args[j].validator.k # "optional" /\ args[j].key \notin OwnKeys(input))
                  => ~res.ok
            /\ (/\ args[j].validator.k = "optional"
                /\ Get(input, args[j].key).t = "undefined"
                /\ OthersValid(args, input, mode, j)
                /\ mode = FALSE) => res.ok

(***************************************************************************)
(* C9 (amended): object validation does not distinguish an absent key from *)
(* a key present with value undefined; the field's validator is applied to *)
(* input[key], which is undefined in both cases.  The result is the one    *)
(* the same input gets once its absent declared keys are present with      *)
(* value undefined: a field is satisfied by an absent key exactly when its *)
(* validator accepts undefined (optional(x), undefinable(x), unknown).     *)
(***************************************************************************)
\* x with every declared key it lacks present as undefined
WithAbsentAsUndefined(fields, x) ==
    IF ~(x.t \in {"object", "array"}) THEN x
    ELSE [x EXCEPT !.f = [key \in DOMAIN x.f \cup FieldKeys(fields) |->
                             IF key \in DOMAIN x.f THEN x.f[key] ELSE Undef]]

C9_AbsentKeyReadsAsUndefined ==
    Called("object") =>
        /\ res.ok <=> Validate(node, WithAbsentAsUndefined(args, input), mode).ok
        /\ isObject(input) =>
              \A j \in 1..Len(args) :
                 (args[j].key \notin OwnKeys(input) /\ OthersValid(args, input, mode, j)
                     /\ mode = FALSE)
                    => (res.ok <=> Validate(args[j].validator, Undef, FALSE).ok)

\* a field that is not Optional, satisfied by an absent key
C9_Witness ==
    /\ Called("object") /\ res.ok
    /\ \E j \in 1..Len(args) :
          /\ args[j].validator = undefinable(string)
          /\ args[j].key \notin OwnKeys(input)

(***************************************************************************)
(* Composite trees: the combinators and inputs of SpecCompose.             *)
(***************************************************************************)
MaxDepth == 2
\* the object at the bottom of every composite tree
Leaf == object(<<Field("a", string)>>)
Combinators ==
    {"array", "dictionary", "record", "tuple", "spread", "union", "optional",
     "maybe", "recursive", "intersection", "adapt", "adaptor", "cls"}
\* the combinator called `name` applied to the validator v
Combine(name, v) ==
    CASE name = "array" -> array(v)
      [] name = "dictionary" -> dictionary(v)
      [] name = "record" -> record(<<"a">>, v)
      [] name = "tuple" -> tuple(<<v>>)
      [] name = "spread" -> spread(<<string>>, array(v))
      [] name = "union" -> union(<<string, v>>)
      [] name = "optional" -> optional(v)
      [] name = "maybe" -> maybe(v)
      [] name = "recursive" -> recursive(Returning(v))
      [] name = "intersection" -> intersection(<<unknown, v>>)
      [] name = "adapt" -> adapt(v, <<tryAdaptor(string, "toBoolean")>>)
      [] name = "adaptor" -> adapt(string, <<adaptor(v, "wrapInArray")>>)
      [] name = "cls" -> cls("A", tuple(<<v>>))
\* an input that `Combine(name, v)` hands down to v as y
Embed(name, y) ==
    CASE name \in {"array", "tuple", "cls"} -> Arr(<<y>>, NoFields)
      [] name \in {"dictionary", "record"} -> Obj([a |-> y])
      [] name = "spread" -> Arr(<<Str("x"), y>>, NoFields)
      [] OTHER -> y
\* names[1] is the outermost combinator
RECURSIVE ComposeTree(_)
ComposeTree(names) ==
    IF names = <<>> THEN Leaf ELSE Combine(Head(names), ComposeTree(Tail(names)))
RECURSIVE EmbedAll(_, _)
EmbedAll(names, y) ==
    IF names = <<>> THEN y ELSE Embed(Head(names), EmbedAll(Tail(names), y))

\* what reaches the leaf: a valid object, one with an undeclared key, others
Declared == Obj([a |-> Str("x")])
Undeclared == Obj([a |-> Str("x"), b |-> Num("1")])
LeafInputs == {Declared, Undeclared, Obj([a |-> Num("1")]), Null}

BuildCompose ==
    /\ pc = "start"
    /\ \E names \in SeqsUpTo(Combinators, MaxDepth) :
            Build("compose", names, ComposeTree(names))

CallCompose ==
    /\ pc = "built"
    /\ \E y \in LeafInputs, isExact \in BOOLEAN :
            \/ Call(EmbedAll(args, y), isExact)
            \/ Call(y, isExact)

NextCompose == BuildCompose \/ CallCompose \/ Return

SpecCompose == Init /\ [][NextCompose]_vars

(***************************************************************************)
(* C8: the loose/exact mode chosen at the entry point is passed unchanged  *)
(* to every descendant.  validateExact applies exact semantics to every    *)
(* Object node reached through array, dictionary, record, tuple/spread,    *)
(* union, optional, maybe, recursive, intersection, adapt and cls, and     *)
(* validate applies loose semantics to all of them; no node switches mode  *)
(* on the way down.                                                        *)
(***************************************************************************)
C8_ModeReachesEveryDescendant ==
    Called("compose") =>
        /\ res.seen \subseteq {mode}
        /\ input = EmbedAll(args, Declared) => (res.ok /\ res.seen = {mode})
        /\ input = EmbedAll(args, Undeclared) =>
              /\ res.ok <=> mode = FALSE
              /\ res.seen = {mode}

\* validateExact turning down an undeclared key two combinators down
C8_Witness ==
    /\ Called("compose") /\ mode = TRUE /\ ~res.ok /\ res.seen = {TRUE}
    /\ Len(args) = 2 /\ args[1] # args[2]
    /\ input = EmbedAll(args, Undeclared)

\* the combinators whose failures the messages of their children pass through
StructuralCombinators ==
    {"array", "dictionary", "record", "tuple", "spread", "intersection", "maybe"}
\* an object whose field a fails the leaf's string validator
Mistyped == Obj([a |-> Num("1")])
\* part occurs in message as a run of consecutive tokens
Contains(message, part) ==
    \E i \in 0..(Len(message) - Len(part)) :
        SubSeq(message, i + 1, i + Len(part)) = part

(***************************************************************************)
(* C28: every failure produced by a structural node (object field, array   *)
(* index, dictionary key, record key, tuple position or spread,            *)
(* intersection child, maybe) names the offending key/index/child and      *)
(* contains the child's own failure message, so the innermost failure      *)
(* message is still present in the outermost error through any nesting     *)
(* depth.                                                                  *)
(***************************************************************************)
C28_InnermostMessageSurvives ==
    (/\ Called("compose") /\ Range(args) \subseteq StructuralCombinators
     /\ input = EmbedAll(args, Mistyped)) =>
        /\ ~res.ok
        /\ Contains(res.err, <<"key", "a">>)
        /\ Contains(res.err, Validate(string, Get(Mistyped, "a"), mode).err)

(***************************************************************************)
(* Unions: the members and inputs of SpecUnion.                            *)
(***************************************************************************)
UnionMembers ==
    {string, number, maybe(string), cls("A", tuple(<<string>>)),
     adapt(boolean, <<tryAdaptor(string, "toBoolean")>>),
     union(<<maybe(number), string>>), union(<<number, boolean>>)}
UnionInputs ==
    {Undef, Null, Str("x"), Str("true"), Num("1"), Bool("true"),
     Arr(<<Str("x")>>, NoFields), Instance("A", <<Str("x")>>), Obj(NoFields)}

BuildUnion ==
    /\ pc = "start"
    /\ \E validators \in SeqsUpTo(UnionMembers, MaxSibs) :
            Build("union", validators, union(validators))

CallUnion ==
    /\ pc = "built"
    /\ \E x \in UnionInputs, isExact \in BOOLEAN : Call(x, isExact)

NextUnion == BuildUnion \/ CallUnion \/ Return

SpecUnion == Init /\ [][NextUnion]_vars

(***************************************************************************)
(* C10: a union tries its flattened members in declaration order and       *)
(* returns the result of the first member that succeeds (with converting   *)
(* members such as maybe, adapt or cls the returned value is the earliest  *)
(* matching member's), fails iff no member succeeds, and                   *)
(* union(union(A, B), C) has the same member list and the same result on   *)
(* every input as union(A, B, C).                                          *)
(***************************************************************************)
\* A, B, C for union(union(A, B), C): the members of each given union in
\* place of that union
Spliced(validators) ==
    LET Members(v) == IF v.k = "union" THEN v.validators ELSE <<v>>
        Upto[n \in 0..Len(validators)] ==
            IF n = 0 THEN <<>> ELSE Upto[n - 1] \o Members(validators[n])
    IN  Upto[Len(validators)]
Accepting(validators, x, isExact) ==
    {i \in 1..Len(validators) : Validate(validators[i], x, isExact).ok}
Earliest(indices) == CHOOSE i \in indices : \A j \in indices : i <= j

C10_UnionFirstSuccessFlattened ==
    Called("union") =>
        LET members == Spliced(args)
            accepting == Accepting(members, input, mode)
        IN  /\ node.validators = members
            /\ \A i \in 1..Len(members) : members[i].k # "union"
            /\ res.ok <=> accepting # {}
            /\ accepting # {} =>
                  res.val = Validate(members[Earliest(accepting)], input, mode).val
            /\ node = union(members)
            /\ res = Validate(union(members), input, mode)

\* a nested union whose second member wins over a later converting member
C10_Witness ==
    /\ Called("union") /\ res.ok /\ "union" \in KindsOf(args)
    /\ LET members == Spliced(args)
           accepting == Accepting(members, input, mode)
       IN  \E i \in accepting, j \in accepting :
              /\ 1 < i /\ i < j /\ i = Earliest(accepting)
              /\ Validate(members[j], input, mode).val # res.val

(***************************************************************************)
(* Tuples: the items and inputs of SpecTuple.                              *)
(***************************************************************************)
MaxItems == 3
TupleItems == {number, string, optional(boolean), unknown}
TupleRests == {NoValidator, array(string)}
TupleElements == {Num("1"), Str("x"), Bool("true"), Undef}
TupleInputs ==
    {Undef, Null, Obj([a |-> Str("x")])}
    \cup {Arr(items, NoFields) : items \in Seqs0UpTo(TupleElements, MaxItems)}
    \cup {Arr([i \in 1..(MaxItems + 1) |-> Num("1")], NoFields),
          Arr([i \in 1..(MaxItems + 1) |-> Str("x")], NoFields)}

\* tuple(...items) or spread(...items, rest)
BuildTuple ==
    /\ pc = "start"
    /\ \E items \in Seqs0UpTo(TupleItems, MaxItems), rest \in TupleRests :
            Build("tuple", items, TupleValidator(items, rest))

CallTuple ==
    /\ pc = "built"
    /\ \E x \in TupleInputs, isExact \in BOOLEAN : Call(x, isExact)

NextTuple == BuildTuple \/ CallTuple \/ Return

SpecTuple == Init /\ [][NextTuple]_vars

(***************************************************************************)
(* C11: a tuple accepts an input iff it is an array whose length L         *)
(* satisfies minLength <= L <= number of items (no upper bound with a rest *)
(* validator), every fixed position validates against its item and the     *)
(* elements beyond the fixed positions validate against rest; so every     *)
(* array shorter than (index of the last non-Optional item) + 1 is         *)
(* rejected, even when interior items are Optional.                        *)
(***************************************************************************)
\* (index of the last non-Optional item) + 1, 0 when every item is Optional
RequiredLength(items) ==
    LET needed == {i \in 1..Len(items) : items[i].k # "optional"}
    IN  IF needed = {} THEN 0
        ELSE CHOOSE i \in needed : \A j \in needed : j <= i
\* the elements beyond the fixed positions
Beyond(items, x) ==
    Arr(SubSeq(x.items, Len(items) + 1, Len(x.items)), NoFields)

C11_TupleLengthAndPositions ==
    Called("tuple") =>
        /\ res.ok <=>
              /\ IsArray(input)
              /\ RequiredLength(args) <= Len(input.items)
              /\ node.spread.k = "none" => Len(input.items) <= Len(args)
              /\ \A i \in 1..Len(args) :
                    i <= Len(input.items) =>
                       Validate(args[i], input.items[i], mode).ok
              /\ node.spread.k # "none" =>
                    Validate(node.spread, Beyond(args, input), mode).ok
        /\ (IsArray(input) /\ Len(input.items) < RequiredLength(args)) => ~res.ok

(***************************************************************************)
(* C24: for every Tuple node, minLength equals the index of its last       *)
(* non-Optional item plus one, and 0 when every item is Optional or there  *)
(* are no items.                                                           *)
(***************************************************************************)
C24_MinLengthIsLastRequiredPlusOne ==
    node.k = "tuple" => node.minLength = RequiredLength(node.validators)

(***************************************************************************)
(* Optionals: the items and inputs of SpecOptional.                        *)
(***************************************************************************)
OptionalItems ==
    {string, number, unknown, undefinable(string), nillable(number),
     maybe(string), optional(string), optional(undefinable(string)),
     object(<<Field("a", string)>>),
     object(<<Field("a", optional(number))>>),
     array(object(<<Field("a", string)>>)),
     adapt(boolean, <<tryAdaptor(string, "toBoolean")>>)}
OptionalInputs ==
    {Undef, Null, Str("x"), Str("true"), Num("1"), Bool("true"),
     Arr(<<>>, NoFields), Arr(<<Obj([a |-> Str("x")])>>, NoFields),
     Arr(<<Obj([a |-> Str("x"), b |-> Num("1")])>>, NoFields)}
    \cup ObjectsOver({"a", "b"},
                     [a |-> {Str("x"), Num("1"), Undef}, b |-> {Num("1")}])

BuildOptional ==
    /\ pc = "start"
    /\ \E item \in OptionalItems : Build("optional", <<item>>, optional(item))

CallOptional ==
    /\ pc = "built"
    /\ \E x \in OptionalInputs, isExact \in BOOLEAN : Call(x, isExact)

NextOptional == BuildOptional \/ CallOptional \/ Return

SpecOptional == Init /\ [][NextOptional]_vars

(***************************************************************************)
(* C12: optional(item) returns success with undefined for an undefined     *)
(* input without invoking item, and otherwise returns what item returns in *)
(* the same mode; optional(optional(V)) returns the same result as         *)
(* optional(V) for every input and both modes.                             *)
(***************************************************************************)
C12_OptionalDelegatesAndIsIdempotent ==
    Called("optional") =>
        LET item == args[1]
            direct == Validate(item, input, mode)
        IN  /\ input = Undef => res = Ok(Undef)
            /\ input # Undef =>
                  /\ res.ok = direct.ok
                  /\ res.val = direct.val
                  /\ res.seen = direct.seen
                  /\ node.validator = item => res = direct
            /\ Validate(optional(optional(item)), input, mode) = res

\* optional(optional(V)) handing a defined input down to V
C12_Witness ==
    /\ Called("optional") /\ res.ok /\ input # Undef
    /\ args[1] = optional(undefinable(string))

(***************************************************************************)
(* Recursive schemas: the schemas and inputs of SpecRecursive.             *)
(***************************************************************************)
MaxNesting == 4
RecursiveNames == {"Category", "List", "Nested", "Opt", "Alt"}
\* const Category = object({ ... recursive(() => Category) ... }), and the
\* bare recursive(() => Category)
RecursiveSchemas ==
    {Supplier(Named(name)) : name \in RecursiveNames}
        \cup {recursive(Named(name)) : name \in RecursiveNames}

\* { name: 'a', categories: [] } with a for name and b for categories
CategoryLeaf == Obj([a |-> Str("a"), b |-> Arr(<<>>, NoFields)])
\* values nested up to d containers deep
RECURSIVE Nestings(_)
Nestings(d) ==
    IF d = 0 THEN {Str("a"), Num("1"), Undef}
    ELSE LET inner == Nestings(d - 1) IN
         inner \cup {Arr(<<>>, NoFields)}
               \cup {Arr(<<u>>, NoFields) : u \in inner}
               \cup {Obj([a |-> Str("a"), b |-> u]) : u \in inner}
               \cup {Obj([a |-> u]) : u \in inner}
RecursiveInputs ==
    Nestings(MaxNesting)
        \cup {Obj([a |-> Str("b"), b |-> Arr(<<CategoryLeaf, CategoryLeaf>>, NoFields)]),
              Obj([a |-> Str("b"), b |-> Arr(<<CategoryLeaf, Num("1")>>, NoFields)]),
              Arr(<<Str("a"), Arr(<<Str("a"), Str("a")>>, NoFields)>>, NoFields),
              Obj(NoFields), Null}

BuildRecursive ==
    /\ pc = "start"
    /\ \E schema \in RecursiveSchemas : Build("recursive", <<schema>>, schema)

CallRecursive ==
    /\ pc = "built"
    /\ \E x \in RecursiveInputs, isExact \in BOOLEAN : Call(x, isExact)

NextRecursive == BuildRecursive \/ CallRecursive \/ Return

SpecRecursive == Init /\ [][NextRecursive]_vars

\* the Category schema, bare or behind its Recursive node
CategorySchemas == {Supplier(Named("Category")), recursive(Named("Category"))}
\* the values of a tree below its root, for a tree of Category shape
RECURSIVE Descendants(_)
RECURSIVE DescendantsFrom(_, _)
DescendantsFrom(items, i) ==
    IF i > Len(items) THEN 0
    ELSE 1 + Descendants(items[i]) + DescendantsFrom(items, i + 1)
Descendants(x) ==
    IF isObject(x) /\ IsArray(Get(x, "b")) THEN DescendantsFrom(Get(x, "b").items, 1)
    ELSE 0
\* x is a node with a string name whose children are an array of such nodes
RECURSIVE IsCategory(_)
IsCategory(x) ==
    /\ isObject(x)
    /\ Get(x, "a").t = "string"
    /\ IsArray(Get(x, "b"))
    /\ \A i \in 1..Len(Get(x, "b").items) : IsCategory(Get(x, "b").items[i])
\* how many containers deep the values of x are nested
RECURSIVE Nesting(_)
RECURSIVE NestingFrom(_, _)
NestingFrom(values, i) ==
    IF i > Len(values) THEN 0
    ELSE Max(Nesting(values[i]), NestingFrom(values, i + 1))
Nesting(x) ==
    CASE x.t = "array" -> 1 + NestingFrom(x.items, 1)
      [] x.t = "object" ->
            LET keys == KeySeq(DOMAIN x.f) IN
            1 + NestingFrom([i \in 1..Len(keys) |-> x.f[keys[i]]], 1)
      [] OTHER -> 0

(***************************************************************************)
(* C13, as stated: the supplier of a Recursive node is not invoked at       *)
(* construction and is invoked exactly once in total, on first resolution; *)
(* later validations reuse the memoized node and name and do not call the  *)
(* supplier again.                                                         *)
(***************************************************************************)
C13_SupplierInvokedOnce ==
    /\ ~memo.named => memo.supplied = 0
    /\ memo.named => memo.supplied = 1

(***************************************************************************)
(* C13, amended: the supplier is not invoked at construction; only the     *)
(* name is memoized, on first resolution; the supplier is invoked again on *)
(* every validation that passes through the Recursive node, once for each  *)
(* value validated through it, whether or not the name is set already.     *)
(***************************************************************************)
C13_SupplierInvokedOnEveryValidation ==
    /\ memo.named <=> memo.supplied > 0
    /\ pc = "built" /\ ~memo.named => memo = Unresolved
    /\ (pc = "called" /\ node.k = "recursive") =>
          /\ res.calls # <<>>
          /\ res.calls[1] = [kind |-> "supplier", callee |-> node.fn.name, with |-> Undef]
          /\ memo.supplied >= Len(CallsOf("supplier", res))
    /\ (pc = "called" /\ node \in CategorySchemas /\ res.ok) =>
          Len(CallsOf("supplier", res)) =
              Descendants(input) + (IF node.k = "recursive" THEN 1 ELSE 0)

\* a second validation through a Recursive node whose name is set already
C13_Witness ==
    /\ pc = "called" /\ node = recursive(Named("Category")) /\ res.ok
    /\ Descendants(input) > 0
    /\ memo.supplied > Len(CallsOf("supplier", res))

(***************************************************************************)
(* C14, as stated: for a recursive schema whose self-reference is nested   *)
(* inside an array, an optional or a union, the validation of every finite *)
(* input terminates with a result.                                         *)
(***************************************************************************)
C14_SelfReferenceTerminates ==
    pc = "called" => res.raised = {}

(***************************************************************************)
(* C14, amended: validation terminates with a result, at a recursion depth *)
(* bounded by the nesting depth of the input, when the self-reference is   *)
(* validated against an item or a field of the input (inside an array or   *)
(* an object field); a self-reference inside optional or union alone is    *)
(* validated against the same input again and overflows the call stack on  *)
(* every input that reaches it. The tree validator accepts exactly the     *)
(* nodes whose children are an array of valid nodes.                       *)
(***************************************************************************)
C14_DescendingRecursionTerminates ==
    pc = "called" =>
        LET name == IF node.k = "recursive" THEN node.fn.name
                    ELSE CHOOSE n \in RecursiveNames : Supplier(Named(n)) = node
        IN  /\ name \in {"Category", "List", "Nested"} => res.raised = {}
            /\ name = "Opt" => (res.raised = {} <=> input = Undef)
            /\ name = "Alt" => (res.raised = {} <=> input.t = "string")
            /\ res.raised = {} => res.depth <= Nesting(input) + 1
            /\ name = "Category" => (res.ok <=> IsCategory(input))

\* the tree of the example, accepted two levels down
C14_Witness ==
    /\ pc = "called" /\ node = Supplier(Named("Category")) /\ res.ok
    /\ input = Obj([a |-> Str("a"), b |-> Arr(<<CategoryLeaf>>, NoFields)])
    /\ res.depth = 1

(***************************************************************************)
(* Adaptation: the validators and inputs of SpecAdapt.                     *)
(***************************************************************************)
MaxAdaptors == 2
AdaptPrimaries == {boolean, array(string), never}
\* c.adaptor(c.number, n => !!n), c.tryAdaptor(c.string, s => ...) of the
\* test, and adaptors whose guard accepts what their conversion rejects
Adaptors ==
    {adaptor(number, "truthy"), tryAdaptor(string, "toBoolean"),
     tryAdaptor(unknown, "toBoolean"), adaptor(string, "wrapInArray"),
     adaptor(object(<<Field("a", boolean)>>), "fieldA")}
AdaptInputs ==
    {Bool("true"), Bool("false"), Num("1"), Num("0"), Str("true"), Str("false"),
     Str("maybe"), Undef, Arr(<<>>, NoFields), Arr(<<Str("a")>>, NoFields),
     Obj(NoFields), Obj([a |-> Bool("true")]), Obj([a |-> Bool("true"), b |-> Str("a")])}

BuildAdapt ==
    /\ pc = "start"
    /\ \E primary \in AdaptPrimaries, adaptors \in Seqs0UpTo(Adaptors, MaxAdaptors) :
          Build("adapt", <<primary>>, adapt(primary, adaptors))

CallAdapt ==
    /\ pc = "built"
    /\ \E x \in AdaptInputs, isExact \in BOOLEAN : Call(x, isExact)

NextAdapt == BuildAdapt \/ CallAdapt \/ Return

SpecAdapt == Init /\ [][NextAdapt]_vars

\* the guard of adaptor i accepts x
GuardAccepts(adaptors, i, x, isExact) == Validate(adaptors[i].validator, x, isExact).ok
\* what the conversion of adaptor i makes of what its guard returned
Conversion(adaptors, i, x, isExact) ==
    AdaptorFunc(adaptors[i].func, Validate(adaptors[i].validator, x, isExact).val)

(***************************************************************************)
(* C15: adapt(primary, a1, ..., an) returns primary's result when primary  *)
(* succeeds and consults no adaptor; otherwise it returns the converted    *)
(* value of the first adaptor, in order, whose guard accepts the input and *)
(* whose conversion succeeds; a fallible conversion that fails after its   *)
(* guard succeeded is swallowed and the next adaptor is tried; the result  *)
(* is a failure, naming every adaptor's guard and not the conversion's     *)
(* error, iff primary and every adaptor fail.                              *)
(***************************************************************************)
C15_AdaptFirstSuccessfulAdaptor ==
    Called("adapt") =>
        LET primary == Validate(args[1], input, mode)
            adaptors == node.adaptors
            winners == {i \in 1..Len(adaptors) :
                           /\ GuardAccepts(adaptors, i, input, mode)
                           /\ Conversion(adaptors, i, input, mode).ok}
            conversions == CallsOf("conversion", res)
        IN  /\ primary.ok => res = primary /\ conversions = <<>>
            /\ (~primary.ok /\ winners # {}) =>
                  LET first == CHOOSE i \in winners : \A j \in winners : i <= j
                      tried == SelectSeq([j \in 1..first |-> j],
                                         LAMBDA j : GuardAccepts(adaptors, j, input, mode))
                  IN  /\ res.ok
                      /\ res.val = Conversion(adaptors, first, input, mode).val
                      /\ conversions =
                            [n \in 1..Len(tried) |->
                                [kind |-> "conversion", callee |-> adaptors[tried[n]].func,
                                 with |-> Validate(adaptors[tried[n]].validator,
                                                   input, mode).val]]
            /\ res.ok <=> (primary.ok \/ winners # {})
            /\ ~res.ok => res.err = <<"adapt">> \o GuardNames(adaptors)

\* a fallible conversion failed after its guard accepted, and the next
\* adaptor won
C15_Witness ==
    /\ Called("adapt") /\ res.ok
    /\ Len(CallsOf("conversion", res)) = 2
    /\ node.adaptors[1].isFallible

(***************************************************************************)
(* User callbacks: the validators and inputs of SpecCallbacks.             *)
(***************************************************************************)
\* c.cls(A, c.tuple(c.number, c.string)) of the test, and further argument
\* lists
ArgsValidators ==
    {tuple(<<number, string>>), tuple(<<number, optional(string)>>),
     spread(<<number>>, array(string)), array(number),
     tuple(<<object(<<Field("a", number)>>)>>)}
Functions == {"first", "pack"}
CallbackInputs ==
    {Instance("A", <<Num("1"), Str("a")>>), Instance("B", <<Num("1"), Str("a")>>),
     Arr(<<Num("1"), Str("a")>>, NoFields), Arr(<<Num("0"), Str("")>>, NoFields),
     Arr(<<>>, NoFields), Arr(<<Num("1")>>, NoFields), Arr(<<Str("a")>>, NoFields),
     Arr(<<Num("1"), Num("1")>>, NoFields),
     Arr(<<Obj([a |-> Num("1")])>>, NoFields),
     Arr(<<Obj([a |-> Num("1"), b |-> Num("1")])>>, NoFields),
     Arr(<<Obj([a |-> Str("a")])>>, NoFields),
     Obj([a |-> Num("1")]), Obj(NoFields), Bool("true"), Num("3"), Undef}

BuildClass ==
    /\ pc = "start"
    /\ \E v \in ArgsValidators : Build("cls", <<v>>, cls("A", v))

BuildFunction ==
    /\ pc = "start"
    /\ \E fn \in Functions, v \in ArgsValidators : Build("func", <<v>>, func(fn, v))

CallClass ==
    /\ pc = "built"
    /\ node.k = "cls"
    /\ \E x \in CallbackInputs, isExact \in BOOLEAN : Call(x, isExact)

CallFunctionValidator ==
    /\ pc = "built"
    /\ \E x \in CallbackInputs : CallFunction(x)

NextCallbacks ==
    BuildClass \/ BuildFunction \/ CallClass \/ CallFunctionValidator \/ Return

SpecCallbacks == Init /\ [][NextCallbacks]_vars

(***************************************************************************)
(* C16: user callbacks run only on validated arguments. cls returns an     *)
(* input that is already an instance of the class unchanged, without       *)
(* running the args validator or the constructor, and otherwise calls the  *)
(* constructor only with arguments the args validator accepted;            *)
(* func(fn, args).validateCall calls fn only with arguments the args       *)
(* validator accepted; a rejected input yields a failure and the           *)
(* constructor or fn is not invoked.                                       *)
(***************************************************************************)
C16_CallbacksOnlyOnValidatedArgs ==
    (pc = "called" /\ op \in {"cls", "func"}) =>
        LET argsResult == Validate(args[1], input, mode)
            isInstance == op = "cls" /\ input.t = "instance" /\ input.clz = node.clz
        IN  /\ isInstance => res = Ok(input)
            /\ (~isInstance /\ argsResult.ok) =>
                  /\ res.ok
                  /\ op = "cls" =>
                        /\ res.val = Instance(node.clz, argsResult.val.items)
                        /\ res.calls = <<[kind |-> "constructor", callee |-> node.clz,
                                          with |-> argsResult.val]>>
                  /\ op = "func" =>
                        /\ res.val = FuncApply(node.fn, argsResult.val)
                        /\ res.calls = <<[kind |-> "function", callee |-> node.fn,
                                          with |-> argsResult.val]>>
            /\ (~isInstance /\ ~argsResult.ok) => ~res.ok /\ res.calls = <<>>
            /\ \A n \in 1..Len(res.calls) :
                  Validate(args[1], res.calls[n].with, mode).ok

\* a function called with the arguments its validator accepted
C16_Witness ==
    /\ pc = "called" /\ op = "func" /\ res.ok
    /\ res.calls # <<>>
    /\ input = Arr(<<Num("1"), Str("a")>>, NoFields)

(***************************************************************************)
(* Shape mismatches: the validators and inputs of SpecMismatch, one        *)
(* validator of every kind and input values of every runtime kind.         *)
(***************************************************************************)
MismatchValidators ==
    {string, number, boolean, never, literal(Str("a")),
     union(<<string, number>>), optional(string), maybe(number),
     array(string), dictionary(number), record(<<"a">>, string),
     tuple(<<string, number>>), spread(<<string>>, array(number)),
     object(<<Field("a", string), Field("b", optional(number))>>),
     intersection(<<object(<<Field("a", string)>>), object(<<Field("b", number)>>)>>),
     cls("A", tuple(<<number, string>>)),
     adapt(boolean, <<tryAdaptor(string, "toBoolean")>>),
     Supplier(Named("Category"))}
MismatchInputs ==
    {Undef, Null, Str("a"), Str("b"), Num("1"), Bool("true"), Fn("f"), Sym,
     Obj(NoFields), Bare(NoFields), Obj([a |-> Str("a")]), Bare([a |-> Str("a")]),
     Obj([a |-> Num("1")]), Obj([a |-> Sym]), Obj([a |-> Bare(NoFields)]),
     Obj([a |-> Str("a"), b |-> Str("b")]), Obj([a |-> Str("a"), b |-> Num("1")]),
     Obj([a |-> Str("a"), b |-> Num("1"), c |-> Num("1")]),
     Obj([a |-> Str("a"), b |-> Arr(<<Num("1")>>, NoFields)]),
     Arr(<<>>, NoFields), Arr(<<Str("a")>>, NoFields), Arr(<<Num("1")>>, NoFields),
     Arr(<<Str("a"), Num("1")>>, NoFields), Arr(<<Num("1"), Str("a")>>, NoFields),
     Arr(<<Str("a"), Num("1"), Num("1")>>, NoFields),
     Arr(<<Sym>>, NoFields), Arr(<<Bare(NoFields)>>, NoFields),
     Instance("A", <<Num("1"), Str("a")>>), Instance("B", <<>>),
     Some(Num("1")), None}

BuildMismatch ==
    /\ pc = "start"
    /\ \E v \in MismatchValidators : Build(v.k, <<v>>, v)

CallMismatch ==
    /\ pc = "built"
    /\ \E x \in MismatchInputs, isExact \in BOOLEAN : Call(x, isExact)

NextMismatch == BuildMismatch \/ CallMismatch \/ Return

SpecMismatch == Init /\ [][NextMismatch]_vars

(***************************************************************************)
(* C17: validate and validateExact on any constructed validator return a   *)
(* tagged Ok/Err result for every input value and never raise for a        *)
(* data-shape mismatch (wrong runtime kind, wrong length, missing or       *)
(* invalid field, extra key in exact mode, no union member matching),      *)
(* whatever the kind of the offending input value.                         *)
(***************************************************************************)
C17_NeverRaisesOnMismatch ==
    pc = "called" => res.raised = {}

(***************************************************************************)
(* Converting children: the validators and inputs of SpecConvert,          *)
(* structural validators over children that return something other than    *)
(* their input (maybe, cls, adapt).                                        *)
(***************************************************************************)
\* v.object({ name: v.string, height: v.number, weight: MaybeNumber }) with
\* a, b and c for name, height and weight
Person ==
    object(<<Field("a", string), Field("b", number), Field("c", maybe(number))>>)
ConvertingChildren ==
    {maybe(number), cls("A", tuple(<<number>>)),
     adapt(boolean, <<tryAdaptor(string, "toBoolean")>>)}
ConvertValidators ==
    {Person}
        \cup {object(<<Field("a", child)>>) : child \in ConvertingChildren}
        \cup {array(child) : child \in ConvertingChildren}
        \cup {dictionary(child) : child \in ConvertingChildren}
        \cup {tuple(<<string, child>>) : child \in ConvertingChildren}
ConvertValues ==
    {Null, Num("2"), Str("true"), Bool("true"), Arr(<<Num("1")>>, NoFields),
     Instance("A", <<Num("1")>>)}
ConvertInputs ==
    {Obj([a |-> Str("Alice"), b |-> Num("2"), c |-> value]) :
        value \in {Null, Num("2"), Str("x")}}
        \cup {Obj([a |-> Str("Alice"), b |-> Num("2")]), Obj(NoFields)}
        \cup {Obj([a |-> value]) : value \in ConvertValues}
        \cup {Arr(<<value>>, NoFields) : value \in ConvertValues}
        \cup {Arr(<<Str("a"), value>>, NoFields) : value \in ConvertValues}
        \cup {Arr(<<>>, NoFields)}

BuildConvert ==
    /\ pc = "start"
    /\ \E v \in ConvertValidators : Build(v.k, <<v>>, v)

CallConvert ==
    /\ pc = "built"
    /\ \E x \in ConvertInputs, isExact \in BOOLEAN : Call(x, isExact)

NextConvert == BuildConvert \/ CallConvert \/ Return

SpecConvert == Init /\ [][NextConvert]_vars

\* what the child validator returns for the value the input holds at key
ChildResult(child, x, key, isExact) == Validate(child, Get(x, key), isExact)

(***************************************************************************)
(* C18: a structural validator returns the converted results of its        *)
(* children: a successful object, array, tuple or dictionary result holds  *)
(* each child's successful result at the child's key or index (the weight  *)
(* field validated by maybe(number) holds None for null and Some(n) for a  *)
(* number, not the raw input).                                             *)
(***************************************************************************)
C18_ResultHoldsChildResults ==
    (pc = "called" /\ res.ok) =>
        CASE node.k = "object" ->
                \A i \in 1..Len(node.validators) :
                    LET key == node.validators[i].key IN
                    Get(res.val, key)
                        = ChildResult(node.validators[i].validator, input, key, mode).val
          [] node.k = "tuple" ->
                \A i \in 1..Len(node.validators) :
                    Get(res.val, IndexKey(i - 1))
                        = ChildResult(node.validators[i], input, IndexKey(i - 1), mode).val
          [] node.k \in {"array", "dictionary"} ->
                \A key \in OwnKeys(input) :
                    Get(res.val, key) = ChildResult(node.validator, input, key, mode).val
          [] OTHER -> TRUE

(***************************************************************************)
(* partial: the validators and inputs of SpecPartial.                      *)
(***************************************************************************)
PartialSubjects ==
    {object(<<Field("a", string), Field("b", undefinable(number))>>),
     object(<<Field("a", optional(string))>>),
     array(string), array(optional(string)),
     tuple(<<undefinable(string), number>>), tuple(<<string, optional(number)>>),
     spread(<<undefinable(string), number>>, array(boolean)),
     dictionary(nullable(number)), dictionary(optional(number)),
     union(<<string, object(<<Field("a", number)>>)>>),
     union(<<array(string), tuple(<<number, number>>)>>),
     intersection(<<object(<<Field("a", number)>>), object(<<Field("b", string)>>)>>),
     intersection(<<tuple(<<string, number>>), array(union(<<string, number>>))>>),
     string, optional(string), maybe(number), literal(Str("a")),
     record(<<"a">>, string), cls("A", tuple(<<number>>))}
PartialValues == {Str("a"), Num("1"), Bool("true"), Undef, Null}
PartialInputs ==
    PartialValues
        \cup ObjectsOver({"a", "b"}, [a |-> PartialValues, b |-> PartialValues])
        \cup {Obj([a |-> Num("1"), b |-> Str("a"), c |-> Undef])}
        \cup {Arr(items, NoFields) : items \in Seqs0UpTo(PartialValues, MaxLen)}
        \cup {Arr(<<Str("a"), Undef, Str("a")>>, NoFields),
              Arr(<<Undef, Num("1"), Bool("true")>>, NoFields),
              Arr(<<Str("a"), Num("1"), Undef, Bool("true")>>, NoFields),
              Arr(<<Str("a"), Num("1"), Num("1")>>, NoFields)}

BuildPartial ==
    /\ pc = "start"
    /\ \E v \in PartialSubjects : Build("partial", <<v>>, partial(v))

CallPartial ==
    /\ pc = "built"
    /\ \E x \in PartialInputs, isExact \in BOOLEAN : Call(x, isExact)

NextPartial == BuildPartial \/ CallPartial \/ Return

SpecPartial == Init /\ [][NextPartial]_vars

\* value is undefined (or absent), or valid under the child validator
UndefinedOrValid(child, value, isExact) ==
    value = Undef \/ Validate(child, value, isExact).ok
\* x has the container shape v requires, and each field, element,
\* dictionary value or tuple position is undefined or valid under v's child
RECURSIVE PartiallyValid(_, _, _)
PartiallyValid(v, x, isExact) ==
    CASE v.k = "object" ->
            /\ isObject(x)
            /\ \A i \in 1..Len(v.validators) :
                  UndefinedOrValid(v.validators[i].validator,
                                   Get(x, v.validators[i].key), isExact)
            /\ isExact => OwnKeys(x) \subseteq FieldKeys(v.validators)
      [] v.k = "array" ->
            /\ IsArray(x)
            /\ \A n \in 1..Len(x.items) :
                  UndefinedOrValid(v.validator, x.items[n], isExact)
      [] v.k = "dictionary" ->
            /\ isObject(x) /\ ~IsArray(x)
            /\ \A key \in OwnKeys(x) :
                  UndefinedOrValid(v.validator, Get(x, key), isExact)
      [] v.k = "tuple" ->
            /\ IsArray(x)
            /\ v.spread.k = "none" => Len(x.items) <= Len(v.validators)
            /\ \A i \in 1..Len(v.validators) :
                  i <= Len(x.items) =>
                      UndefinedOrValid(v.validators[i], x.items[i], isExact)
            /\ v.spread.k # "none" =>
                  PartiallyValid(v.spread, Beyond(v.validators, x), isExact)
      [] v.k = "union" ->
            \E i \in 1..Len(v.validators) : PartiallyValid(v.validators[i], x, isExact)
      [] v.k = "intersection" ->
            \A i \in 1..Len(v.validators) : PartiallyValid(v.validators[i], x, isExact)
      [] OTHER -> Validate(v, x, isExact).ok
PartialKinds == {"object", "array", "dictionary", "tuple", "union", "intersection"}

(***************************************************************************)
(* C19: partial(v) for an Object, Array, Dictionary, Tuple (with or        *)
(* without spread), Union or Intersection accepts an input iff the input   *)
(* has the container shape v requires and each declared field, element,    *)
(* dictionary value or tuple position is undefined (or absent) or valid    *)
(* under v's original child validator; applying partial twice gives a      *)
(* validator with the same results as applying it once; any other node     *)
(* kind is returned unchanged.                                             *)
(***************************************************************************)
C19_PartialToleratesUndefined ==
    Called("partial") =>
        /\ res.ok <=> PartiallyValid(args[1], input, mode)
        /\ Validate(partial(node), input, mode) = res
        /\ args[1].k \notin PartialKinds => node = args[1]

\* a partial tuple with a spread accepting an array with holes
C19_Witness ==
    /\ Called("partial") /\ res.ok
    /\ args[1].k = "tuple" /\ args[1].spread.k # "none"
    /\ input = Arr(<<Str("a"), Num("1"), Undef, Bool("true")>>, NoFields)

(***************************************************************************)
(* required: the validators and inputs of SpecRequired.                    *)
(***************************************************************************)
RequiredSubjects ==
    {object(<<Field("a", optional(string)), Field("b", undefinable(number))>>),
     object(<<Field("a", optional(unknown))>>),
     array(nillable(string)), array(optional(string)),
     array(optional(undefinable(string))),
     array(Values(<<Str("a"), Undef>>, "")),
     tuple(<<string, optional(nullable(number))>>),
     tuple(<<undefinable(string), optional(number)>>),
     spread(<<undefinable(string), optional(number)>>, array(optional(boolean))),
     dictionary(object(<<Field("a", optional(number))>>)),
     dictionary(optional(number)),
     union(<<string, object(<<Field("a", optional(number))>>)>>),
     intersection(<<object(<<Field("a", optional(number))>>),
                    object(<<Field("b", optional(nullable(string)))>>)>>),
     intersection(<<tuple(<<string, optional(number)>>),
                    array(undefinable(union(<<string, number>>)))>>),
     string, optional(string), maybe(number), undefinable(string),
     record(<<"a">>, optional(string))}
RequiredValues == {Str("a"), Num("1"), Bool("true"), Undef, Null}
RequiredInputs ==
    RequiredValues
        \cup ObjectsOver({"a", "b"}, [a |-> RequiredValues \cup {Obj(NoFields)},
                                      b |-> RequiredValues])
        \cup {Obj([a |-> Obj([a |-> Num("1")])]), Obj([a |-> Obj([a |-> Undef])]),
              Obj([a |-> Num("1"), b |-> Str("a"), c |-> Undef])}
        \cup {Arr(items, NoFields) : items \in Seqs0UpTo(RequiredValues, MaxLen)}
        \cup {Arr(<<Str("a"), Null, Str("a")>>, NoFields),
              Arr(<<Undef, Num("1"), Bool("true")>>, NoFields),
              Arr(<<Str("a"), Num("1"), Undef>>, NoFields),
              Arr(<<Str("a"), Num("1"), Num("1")>>, NoFields)}

BuildRequired ==
    /\ pc = "start"
    /\ \E v \in RequiredSubjects : Build("required", <<v>>, required(v))

CallRequired ==
    /\ pc = "built"
    /\ \E x \in RequiredInputs, isExact \in BOOLEAN : Call(x, isExact)

NextRequired == BuildRequired \/ CallRequired \/ Return

SpecRequired == Init /\ [][NextRequired]_vars

\* the child validator without its Optional wrapper
Unwrapped(child) == IF child.k = "optional" THEN child.validator ELSE child
\* the child tolerates undefined through an undefined-literal union branch
\* or an undefined member of its values
HasUndefinedBranch(child) ==
    \/ child.k = "union"
          /\ \E i \in 1..Len(child.validators) : ~NotUndefinedLiteral(child.validators[i])
    \/ child.k = "values" /\ \E i \in 1..Len(child.values) : child.values[i] = Undef
\* the child tolerates undefined through Optional or through such a branch
ToleratesUndefined(child) == child.k = "optional" \/ HasUndefinedBranch(child)
\* the value at position i of an array, undefined beyond its length
ItemAt(x, i) == IF i <= Len(x.items) THEN x.items[i] ELSE Undef

(***************************************************************************)
(* C20, as stated: required(v) rejects undefined wherever v tolerated it:  *)
(* for an Object every field has its Optional wrapper removed and any      *)
(* embedded undefined-literal union branch or undefined literal member     *)
(* stripped, and the same is done per Array item and per Tuple position.   *)
(***************************************************************************)
C20_RequiredRejectsUndefined ==
    (Called("required") /\ res.ok) =>
        CASE args[1].k = "object" ->
                \A i \in 1..Len(args[1].validators) :
                    ToleratesUndefined(args[1].validators[i].validator) =>
                        Get(input, args[1].validators[i].key) # Undef
          [] args[1].k = "tuple" ->
                \A i \in 1..Len(args[1].validators) :
                    ToleratesUndefined(args[1].validators[i]) => ItemAt(input, i) # Undef
          [] args[1].k = "array" ->
                \A n \in 1..Len(input.items) :
                    ToleratesUndefined(args[1].validator) => input.items[n] # Undef
          [] OTHER -> TRUE

\* x is valid under required(v) as the code builds it
RECURSIVE RequiredValid(_, _, _)
RequiredValid(v, x, isExact) ==
    CASE v.k = "object" ->
            /\ isObject(x)
            /\ \A i \in 1..Len(v.validators) :
                  Validate(Unwrapped(v.validators[i].validator),
                           Get(x, v.validators[i].key), isExact).ok
            /\ isExact => OwnKeys(x) \subseteq FieldKeys(v.validators)
      [] v.k = "array" ->
            /\ IsArray(x)
            /\ \A n \in 1..Len(x.items) :
                  /\ Validate(Unwrapped(v.validator), x.items[n], isExact).ok
                  /\ HasUndefinedBranch(Unwrapped(v.validator)) => x.items[n] # Undef
      [] v.k = "tuple" ->
            /\ IsArray(x)
            /\ v.spread.k = "none" => Len(x.items) <= Len(v.validators)
            /\ \A i \in 1..Len(v.validators) :
                  Validate(Unwrapped(v.validators[i]), ItemAt(x, i), isExact).ok
            /\ v.spread.k # "none" =>
                  RequiredValid(v.spread, Beyond(v.validators, x), isExact)
      [] v.k = "union" ->
            \E i \in 1..Len(v.validators) : RequiredValid(v.validators[i], x, isExact)
      [] v.k = "intersection" ->
            \A i \in 1..Len(v.validators) : RequiredValid(v.validators[i], x, isExact)
      [] OTHER -> Validate(v, x, isExact).ok
RequiredKinds == {"object", "array", "tuple", "union", "intersection"}

(***************************************************************************)
(* C20, amended: required(v) removes the Optional wrapper of every field   *)
(* of an Object and of every position of a Tuple (spread made required     *)
(* recursively) and nothing else, so a field or position whose validator   *)
(* is a union with an undefined-literal branch still accepts undefined;    *)
(* only for an Array item is the undefined-literal union branch or the     *)
(* undefined member of its values stripped as well.  Union and             *)
(* Intersection map required over their children; any other node kind,    *)
(* Dictionary included, is returned unchanged.                             *)
(***************************************************************************)
C20_RequiredUnwrapsOptional ==
    Called("required") =>
        /\ res.ok <=> RequiredValid(args[1], input, mode)
        /\ args[1].k \notin RequiredKinds => node = args[1]

\* required(object({ a: optional(string), b: undefinable(number) })) accepts
\* { a: 'a', b: undefined }
C20_Witness ==
    /\ Called("required") /\ res.ok
    /\ args[1] = object(<<Field("a", optional(string)), Field("b", undefinable(number))>>)
    /\ input = Obj([a |-> Str("a"), b |-> Undef])

(***************************************************************************)
(* Round trip: the objects and inputs of SpecRoundTrip.                    *)
(***************************************************************************)
\* field validators that are not Optional; some tolerate undefined
RoundTripFields ==
    {string, number, undefinable(number), nillable(string), unknown,
     undefinable(unknown), maybe(number), undefinedLiteral}
RoundTripObjects ==
    {object(<<Field("a", va)>>) : va \in RoundTripFields}
        \cup {object(<<Field("a", va), Field("b", vb)>>) :
                 va \in RoundTripFields, vb \in {string, undefinable(number)}}
RoundTripValues == {Str("x"), Num("1"), Null, Undef}
RoundTripInputs ==
    {Undef, Str("x"), Arr(<<>>, NoFields)}
        \cup ObjectsOver({"a", "b"}, [a |-> RoundTripValues, b |-> RoundTripValues])
        \cup {Obj([a |-> Str("x"), b |-> Str("x"), c |-> Num("1")]),
              Obj([a |-> Num("1"), c |-> Num("1")])}

BuildRoundTrip ==
    /\ pc = "start"
    /\ \E o \in RoundTripObjects : Build("required partial", <<o>>, required(partial(o)))

CallRoundTrip ==
    /\ pc = "built"
    /\ \E x \in RoundTripInputs, isExact \in BOOLEAN : Call(x, isExact)

NextRoundTrip == BuildRoundTrip \/ CallRoundTrip \/ Return

SpecRoundTrip == Init /\ [][NextRoundTrip]_vars

\* the declared fields of o, among those that satisfy the test, all hold a
\* value other than undefined in x
Populated(o, x, Test(_)) ==
    \A i \in 1..Len(o.validators) :
        Test(o.validators[i].validator) => Get(x, o.validators[i].key) # Undef

\* the child is a union that tolerates undefined only through its
\* undefined-literal branch
LosesUndefined(child) ==
    /\ child.k = "union"
    /\ \E i \in 1..Len(child.validators) : ~NotUndefinedLiteral(child.validators[i])
    /\ \A i \in 1..Len(child.validators) :
          NotUndefinedLiteral(child.validators[i])
              => ~Validate(child.validators[i], Undef, FALSE).ok

(***************************************************************************)
(* C21, as stated: for every object validator o whose fields are not       *)
(* Optional, required(partial(o)) accepts exactly those inputs accepted by *)
(* o in which every declared field is present and not undefined, in both   *)
(* modes.                                                                  *)
(***************************************************************************)
C21_RoundTripFullyPopulated ==
    Called("required partial") =>
        (res.ok <=> /\ Validate(args[1], input, mode).ok
                    /\ Populated(args[1], input, LAMBDA child : TRUE))

(***************************************************************************)
(* C21, amended: required(partial(o)) is o with the undefined-literal      *)
(* branch of every union field removed (by the OptionalValidator           *)
(* constructor that partial calls); it accepts exactly the inputs accepted *)
(* by o in which no field that tolerated undefined only through that       *)
(* branch is undefined or absent. A field that tolerates undefined in      *)
(* another way (unknown, maybe, the undefined literal itself) still does,  *)
(* and for an object whose fields all reject undefined the round trip      *)
(* returns o itself.                                                       *)
(***************************************************************************)
C21_RoundTripStripsUndefinedBranch ==
    Called("required partial") =>
        /\ res.ok <=> /\ Validate(args[1], input, mode).ok
                      /\ Populated(args[1], input, LosesUndefined)
        /\ (\A i \in 1..Len(args[1].validators) :
               ~Validate(args[1].validators[i].validator, Undef, mode).ok)
              => (node = args[1] /\ res = Validate(args[1], input, mode))

\* the round trip of object({ a: undefinable(number) }) rejecting { }, which
\* the object accepts
C21_Witness ==
    /\ Called("required partial") /\ ~res.ok
    /\ args[1] = object(<<Field("a", undefinable(number))>>)
    /\ input = Obj(NoFields)
    /\ Validate(args[1], input, mode).ok

(***************************************************************************)
(* nonnullable: the validators and inputs of SpecNonnullable.              *)
(***************************************************************************)
NonnullableSubjects ==
    {optional(string), nillable(string), undefinable(string), nullable(string),
     optional(nullable(string)), optional(optional(string)),
     Values(<<Num("1"), Str("a"), Undef, Null>>, ""),
     union(<<string, literal(Null)>>), nullable(optional(string)),
     string, array(string), maybe(string), object(<<Field("a", nullable(string))>>)}
NonnullableInputs ==
    {Null, Undef, Str("a"), Str(""), Num("1"), Bool(TRUE), Obj(NoFields),
     Arr(<<>>, NoFields), Arr(<<Str("a")>>, NoFields), Obj([a |-> Null])}

BuildNonnullable ==
    /\ pc = "start"
    /\ \E v \in NonnullableSubjects : Build("nonnullable", <<v>>, nonnullable(v))

CallNonnullable ==
    /\ pc = "built"
    /\ \E x \in NonnullableInputs, isExact \in BOOLEAN : Call(x, isExact)

NextNonnullable == BuildNonnullable \/ CallNonnullable \/ Return

SpecNonnullable == Init /\ [][NextNonnullable]_vars

\* a union with a member that is the literal null or the literal undefined
HasNilLiteralMember(v) ==
    /\ v.k = "union"
    /\ \E i \in 1..Len(v.validators) :
          /\ v.validators[i].k = "values"
          /\ v.validators[i].values \in {<<Null>>, <<Undef>>}

(***************************************************************************)
(* C22: nonnullable(v) rejects both null and undefined and accepts every   *)
(* other input v accepts, whenever v is an Optional, a literal-value set,  *)
(* or a Union with null/undefined literal members; any other node kind is  *)
(* returned unchanged.                                                     *)
(***************************************************************************)
C22_NonnullableRejectsNil ==
    Called("nonnullable") =>
        IF args[1].k \in {"optional", "values"} \/ HasNilLiteralMember(args[1])
        THEN res.ok <=> (NotNil(input) /\ Validate(args[1], input, mode).ok)
        ELSE node = args[1]

(***************************************************************************)
(* pick and omit: the validators, keys and inputs of SpecPick.             *)
(***************************************************************************)
PickObject ==
    object(<<Field("a", string), Field("b", boolean), Field("c", nullable(number))>>)
PickTuple == tuple(<<string, boolean, nullable(number)>>)
PickSubjects ==
    {PickObject, PickTuple, object(<<Field("a", optional(string))>>),
     tuple(<<string, optional(boolean)>>), spread(<<string>>, number),
     array(string), string, union(<<string, number>>), dictionary(string)}
\* the keys the validator declares (keyof T)
KeyOf(v) ==
    CASE v.k = "object" -> FieldKeys(v.validators)
      [] v.k = "tuple" -> IndexKeys(Len(v.validators))
      [] OTHER -> {"a"}
PickInputs ==
    {Undef, Null, Str("a"), Obj(NoFields),
     Obj([a |-> Str("a")]), Obj([a |-> Str("a"), b |-> Bool(TRUE)]),
     Obj([a |-> Str("a"), b |-> Bool(TRUE), c |-> Num("4")]),
     Obj([a |-> Str("a"), c |-> Null]), Obj([c |-> Num("4")]), Obj([c |-> Str("a")]),
     Obj([b |-> Bool(FALSE)]), Obj([a |-> Num("4"), b |-> Bool(TRUE)]),
     Obj([key \in {"1"} |-> Bool(TRUE)]), Obj([key \in {"1"} |-> Str("a")]),
     Obj([key \in {"0", "2"} |-> IF key = "0" THEN Str("a") ELSE Null]),
     Arr(<<>>, NoFields), Arr(<<Str("a")>>, NoFields),
     Arr(<<Str("a"), Bool(TRUE), Num("2")>>, NoFields),
     Arr(<<Str("a"), Str("a")>>, NoFields)}

BuildPick ==
    /\ pc = "start"
    /\ \E v \in PickSubjects :
         \E keys \in Seqs0UpTo(KeyOf(v), MaxLen) :
            Build("pick", <<v, keys>>, pick(v, keys))

BuildOmit ==
    /\ pc = "start"
    /\ \E v \in PickSubjects :
         \E keys \in Seqs0UpTo(KeyOf(v), MaxLen) :
            Build("omit", <<v, keys>>, omit(v, keys))

CallPick ==
    /\ pc = "built"
    /\ \E x \in PickInputs, isExact \in BOOLEAN : Call(x, isExact)

NextPick == BuildPick \/ BuildOmit \/ CallPick \/ Return

SpecPick == Init /\ [][NextPick]_vars

\* node is an Object validator that declares exactly keys, each with the
\* validator that v holds for it, and the call checked exactly those keys
ChecksExactly(v, keys) ==
    /\ node.k = "object"
    /\ FieldKeys(node.validators) = keys
    /\ Len(node.validators) = Cardinality(keys)
    /\ \A key \in keys : FieldAt(node.validators, key) = ValidatorAt(v, key)
    /\ res.ok <=> /\ isObject(input)
                  /\ \A key \in keys :
                        Validate(ValidatorAt(v, key), Get(input, key), mode).ok
                  /\ mode => OwnKeys(input) \subseteq keys
    /\ res.ok => res.val = input

(***************************************************************************)
(* C23: pick(v, keys) on an Object or Tuple yields an Object validator     *)
(* that checks exactly the requested keys (field names, or stringified     *)
(* indices for a Tuple), each with v's original validator for that key;    *)
(* omit(v, keys) on an Object yields an Object validator that checks       *)
(* exactly the declared fields not in keys; on every other node kind both  *)
(* return v unchanged.                                                     *)
(***************************************************************************)
C23_PickOmitCheckExactlyTheKeys ==
    /\ Called("pick") =>
          IF args[1].k \in {"object", "tuple"}
          THEN ChecksExactly(args[1], Range(args[2]))
          ELSE node = args[1]
    /\ Called("omit") =>
          IF args[1].k = "object"
          THEN ChecksExactly(args[1], FieldKeys(args[1].validators) \ Range(args[2]))
          ELSE node = args[1]

\* pick(tuple(string, boolean, number | null), '0', '2') accepting
\* ['a', true, 2] in loose mode (position 1 is not checked)
C23_Witness ==
    /\ Called("pick") /\ res.ok /\ ~mode
    /\ args[1] = PickTuple /\ Range(args[2]) = {"0", "2"}
    /\ input = Arr(<<Str("a"), Bool(TRUE), Num("2")>>, NoFields)

(***************************************************************************)
(* Sequences of constructor and transform calls: SpecDerive applies up to  *)
(* MaxSteps calls, one on the result of the other, to a first validator.   *)
(***************************************************************************)
MaxSteps == 3
DeriveLeaves ==
    {object(<<Field("a", optional(string))>>), union(<<string, number, undefinedLiteral>>)}
DeriveSteps ==
    {"union", "undefinable", "nullable", "nillable", "optional", "intersection",
     "distribute", "partial", "required", "nonnullable", "object", "array"}
\* the call named `name` with the validator v as (one of) its argument(s)
Step(name, v) ==
    CASE name = "union" -> union(<<union(<<boolean, nullLiteral>>), v>>)
      [] name = "undefinable" -> undefinable(v)
      [] name = "nullable" -> nullable(v)
      [] name = "nillable" -> nillable(v)
      [] name = "optional" -> optional(v)
      [] name = "intersection" ->
            intersection(<<v, object(<<Field("b", number)>>)>>)
      [] name = "distribute" ->
            intersection(<<union(<<object(<<Field("b", number)>>), array(string)>>), v>>)
      [] name = "partial" -> partial(v)
      [] name = "required" -> required(v)
      [] name = "nonnullable" -> nonnullable(v)
      [] name = "object" -> object(<<Field("c", v)>>)
      [] name = "array" -> array(v)
\* names[1] is the first call, on the leaf
RECURSIVE Derive(_, _)
Derive(v, names) ==
    IF names = <<>> THEN v ELSE Derive(Step(Head(names), v), Tail(names))

DeriveInputs == {Undef, Obj([a |-> Str("x"), b |-> Num("1")])}

BuildDerive ==
    /\ pc = "start"
    /\ \E v \in DeriveLeaves, names \in SeqsUpTo(DeriveSteps, MaxSteps) :
            Build("derive", <<v, names>>, Derive(v, names))

CallDerive ==
    /\ pc = "built"
    /\ \E x \in DeriveInputs, isExact \in BOOLEAN : Call(x, isExact)

NextDerive == BuildDerive \/ CallDerive \/ Return

SpecDerive == Init /\ [][NextDerive]_vars

\* the direct children of a node
Children(v) ==
    CASE v.k \in {"union", "intersection"} -> v.validators
      [] v.k = "tuple" ->
            IF v.spread.k = "none" THEN v.validators ELSE Append(v.validators, v.spread)
      [] v.k = "object" -> [i \in 1..Len(v.validators) |-> v.validators[i].validator]
      [] v.k \in {"array", "dictionary", "record", "maybe", "optional"} -> <<v.validator>>
      [] OTHER -> <<>>
\* every node of a tree
RECURSIVE Nodes(_)
Nodes(v) == {v} \cup UNION {Nodes(child) : child \in Range(Children(v))}
\* no node of kind `kind` in the tree has a direct child of that kind
NoneNested(v, kind) ==
    \A n \in Nodes(v) :
        n.k = kind => \A child \in Range(Children(n)) : child.k # kind

(***************************************************************************)
(* C25: after any sequence of constructor and transform calls (union,      *)
(* undefinable, nullable, nillable, optional, intersection, partial,       *)
(* required, nonnullable), no Union node has a Union as a direct member.   *)
(***************************************************************************)
C25_NoUnionInsideUnion ==
    pc # "start" => NoneNested(node, "union")

\* a union of unions, built in three calls and stored as one flat union
C25_Witness ==
    /\ op = "derive" /\ pc = "built"
    /\ args[1].k = "union" /\ args[2] = <<"nullable", "union", "partial">>
    /\ node.k = "union" /\ Len(node.validators) = 6

(***************************************************************************)
(* Nested intersections: the operands and inputs of SpecNested.            *)
(***************************************************************************)
NestedSiblings ==
    {object(<<Field("a", string)>>), object(<<Field("a", optional(unknown)), Field("b", number)>>),
     array(string), array(optional(unknown)), tuple(<<string>>),
     union(<<string, object(<<Field("b", number)>>)>>),
     union(<<array(string), object(<<Field("a", string)>>)>>), string, unknown}
NestedInputs ==
    {Undef, Str("x"), Obj(NoFields), Obj([a |-> Str("x")]), Obj([b |-> Num("1")]),
     Obj([a |-> Str("x"), b |-> Num("1")]), Obj([a |-> Num("1"), b |-> Num("1")]),
     Obj([a |-> Str("x"), b |-> Num("1"), c |-> Num("1")]),
     Arr(<<>>, NoFields), Arr(<<Str("x")>>, NoFields), Arr(<<Num("1")>>, NoFields),
     Arr(<<Str("x")>>, [a |-> Str("x")]), Arr(<<Str("x")>>, [a |-> Str("x"), b |-> Num("1")])}

\* intersection(intersection(A, B), C), and partial and required of it
BuildNested ==
    /\ pc = "start"
    /\ \E A \in NestedSiblings, B \in NestedSiblings, C \in NestedSiblings :
         LET nested == intersection(<<intersection(<<A, B>>), C>>) IN
            \/ Build("nested", <<A, B, C>>, nested)
            \/ Build("partial nested", <<A, B, C>>, partial(nested))
            \/ Build("required nested", <<A, B, C>>, required(nested))

CallNested ==
    /\ pc = "built"
    /\ \E x \in NestedInputs, isExact \in BOOLEAN : Call(x, isExact)

NextNested == BuildNested \/ CallNested \/ Return

SpecNested == Init /\ [][NextNested]_vars

(***************************************************************************)
(* C26: after any sequence of intersection, partial and required calls, no *)
(* Intersection node has an Intersection as a direct child;                *)
(* intersection(intersection(A, B), C) classifies and merges A, B and C as *)
(* intersection(A, B, C) does: the node it builds is of the same kind,     *)
(* with as many children, and accepts and rejects the same inputs in both  *)
(* modes (the children of the inner intersection are queued behind C, so   *)
(* the order of the children may differ).                                  *)
(***************************************************************************)
C26_NestedIntersectionIsFlattened ==
    /\ pc # "start" => NoneNested(node, "intersection")
    /\ op = "nested" =>
          /\ node.k = intersection(args).k
          /\ Len(node.validators) = Len(intersection(args).validators)
    /\ Called("nested") => res.ok = Validate(intersection(args), input, mode).ok

\* intersection(intersection({ a: string }, string[]), { a?: unknown, b: number })
\* accepting an array with the side fields a and b
C26_Witness ==
    /\ Called("nested") /\ res.ok
    /\ args = <<object(<<Field("a", string)>>), array(string),
                object(<<Field("a", optional(unknown)), Field("b", number)>>)>>
    /\ node.k = "intersection" /\ Len(node.validators) = 2
    /\ input = Arr(<<Str("x")>>, [a |-> Str("x"), b |-> Num("1")])

\* an Optional node of the tree whose own validator is v
OptionalNodes(v) == {n \in Nodes(v) : n.k = "optional"}
(***************************************************************************)
(* C27: no Optional node directly wraps another Optional node   *)
(* (optional(optional(x)) is constructed as Optional(x)), Optional(Union)  *)
(* holds the inner union with its undefined-literal singleton branch       *)
(* removed, and so a single required() unwrap always yields a validator    *)
(* that rejects undefined.                                                 *)
(***************************************************************************)
C27_OptionalNeverWrapsOptional ==
    pc # "start" =>
        \A n \in OptionalNodes(node) :
            /\ n.validator.k # "optional"
            /\ n.validator.k = "union" =>
                  \A i \in 1..Len(n.validator.validators) :
                      NotUndefinedLiteral(n.validator.validators[i])
            /\ ~Validate(requiredUnwrapOptional(n), Undef, FALSE).ok

(***************************************************************************)
(* Shared validators: SpecFrame builds one validator, validates with it,   *)
(* hands it to the derived-type transforms, validates with the trees they  *)
(* build, and validates with the shared validator again.                   *)
(***************************************************************************)
FrameSubjects ==
    {object(<<Field("a", optional(string)), Field("b", nullable(number))>>),
     tuple(<<string, optional(number)>>), array(undefinable(string)),
     nillable(string), optional(string), recursive(Named("Category")),
     intersection(<<object(<<Field("a", string)>>), array(string)>>)}
FrameTransforms ==
    {"partial", "required", "nonnullable", "pick", "omit", "optional", "intersection"}
\* the first key the validator declares
FirstKey(v) == IF v.k = "object" THEN <<v.validators[1].key>> ELSE <<"0">>
FrameStep(name, v) ==
    CASE name = "partial" -> partial(v)
      [] name = "required" -> required(v)
      [] name = "nonnullable" -> nonnullable(v)
      [] name = "pick" -> pick(v, FirstKey(v))
      [] name = "omit" -> omit(v, FirstKey(v))
      [] name = "optional" -> optional(v)
      [] name = "intersection" -> intersection(<<v, object(<<Field("c", boolean)>>)>>)
FrameInputs ==
    {Undef, Null, Str("x"), Obj(NoFields), Obj([a |-> Str("x"), b |-> Num("1")]),
     Obj([a |-> Str("x"), b |-> Arr(<<>>, NoFields)]), Obj([b |-> Null, c |-> Bool("true")]),
     Arr(<<>>, NoFields), Arr(<<Str("x")>>, NoFields), Arr(<<Str("x"), Num("1")>>, NoFields),
     Arr(<<Str("x")>>, [a |-> Str("x")])}

\* const shared = ...
BuildFrame ==
    /\ pc = "start"
    /\ \E v \in FrameSubjects : Build("shared", <<v>>, v)

\* const tree = partial(shared), required(shared), ...
TransformFrame ==
    /\ pc = "built"
    /\ \E name \in FrameTransforms :
          /\ op' = name
          /\ node' = FrameStep(name, args[1])
    /\ UNCHANGED <<args, pc, input, mode, res, memo>>

\* back to the shared validator
ReuseFrame ==
    /\ pc = "built" /\ op # "shared"
    /\ op' = "shared" /\ node' = args[1]
    /\ UNCHANGED <<args, pc, input, mode, res, memo>>

CallFrame ==
    /\ pc = "built"
    /\ \E x \in FrameInputs, isExact \in BOOLEAN : Call(x, isExact)

NextFrame == BuildFrame \/ TransformFrame \/ ReuseFrame \/ CallFrame \/ Return

SpecFrame == Init /\ [][NextFrame]_vars

\* a validation step and a transform step
Validates == pc = "built" /\ pc' = "called"
Transforms == pc = "built" /\ pc' = "built" /\ op' \in FrameTransforms

ModeCombinators == Combinators \cup {"fieldA", "toBoolean"}
ModeCombine(name, v) ==
    CASE name = "fieldA" -> adapt(v, <<adaptor(unknown, "fieldA")>>)
      [] name = "toBoolean" -> adapt(boolean, <<tryAdaptor(v, "toBoolean")>>)
      [] OTHER -> Combine(name, v)
\* names[1] is the outermost combinator
RECURSIVE ModeTree(_)
ModeTree(names) ==
    IF names = <<>> THEN Leaf ELSE ModeCombine(Head(names), ModeTree(Tail(names)))
ModeLeafInputs ==
    {Declared, Undeclared, Obj([a |-> Str("true")]),
     Obj([a |-> Str("true"), b |-> Num("1")]), Obj([a |-> Num("1")]), Str("true"), Undef}

BuildModes ==
    /\ pc = "start"
    /\ \E names \in Seqs0UpTo(ModeCombinators, MaxDepth) :
            Build("modes", names, ModeTree(names))

CallModes ==
    /\ pc = "built"
    /\ \E y \in ModeLeafInputs, isExact \in BOOLEAN :
            \/ Call(EmbedAll(args, y), isExact)
            \/ Call(y, isExact)

NextModes == BuildModes \/ CallModes \/ Return

SpecModes == Init /\ [][NextModes]_vars

\* the validators an adapt node holds: its own and the guards of its adaptors
AdaptChildren(v) ==
    <<v.validator>> \o [i \in 1..Len(v.adaptors) |-> v.adaptors[i].validator]
\* every node of a tree, the ones held by adapt, cls and recursive included
RECURSIVE AllNodes(_)
AllNodes(v) ==
    {v} \cup UNION {AllNodes(child) :
                       child \in Range(CASE v.k = "adapt" -> AdaptChildren(v)
                                         [] v.k = "cls" -> <<v.constructorArgsValidator>>
                                         [] v.k = "recursive" -> <<Supplier(v.fn)>>
                                         [] OTHER -> Children(v))}
\* a fallible conversion is handed what another adapt node returns: the guard
\* of a tryAdaptor holds an adapt node
ConvertsConverted(v) ==
    \E n \in AllNodes(v) :
        /\ n.k = "adapt"
        /\ \E i \in 1..Len(n.adaptors) :
              /\ n.adaptors[i].isFallible
              /\ \E m \in AllNodes(n.adaptors[i].validator) : m.k = "adapt"

====
